---- MODULE Spec2Model ----
(***************************************************************************)
(* Model of the scheduling backend in src/server.js: the slot-availability *)
(* test isTimeSlotFree, the booking orchestrator POST /api/book-session    *)
(* and the availability resolver POST /api/available-slots, run against a  *)
(* model of the SimplyBook upstream; and of the conversions backend in     *)
(* src/backend: the four routes of /api/conversions and the event list.    *)
(*                                                                         *)
(* A clock time "HH:MM" is the pair <<HH, MM>>, a reserved entry the       *)
(* record [from, to], an interval group a record that may or may not have  *)
(* the fields reserved_time and not_worked_time.                           *)
(***************************************************************************)
EXTENDS Integers, Sequences, FiniteSets, TLC

VARIABLES
    serverOffset, \* new Date().getTimezoneOffset() of the server process
    probe,        \* arguments of one direct call of a pure function
    probeResult,  \* whether that call was made, and the value it returned
    upstream,     \* bookings held by SimplyBook, in creation order
    faultsLeft,   \* how many more upstream calls may fail or answer an error
    bk,           \* per booking request: the handler's position and locals
    av,           \* the POST /api/available-slots request
    recentEvents, \* the event list of conversionsController.js, newest first
    now,          \* Date.now() of the server process, in milliseconds
    cv            \* per conversions request: the handler's position and locals

vars == <<serverOffset, probe, probeResult, upstream, faultsLeft, bk, av, recentEvents, now, cv>>

----------------------------------------------------------------------------
(* Bounds of the model *)

\* longest list of interval groups handed to isTimeSlotFree directly
MaxGroups == 2
\* most entries (reserved_time and not_worked_time together) in one group
MaxEntries == 1
\* most bookings made upstream by parties other than this server
MaxExternal == 1
\* most upstream calls that fail or answer an error object in one run (a
\* single request issues fewer calls than this)
MaxFaults == 8
\* the same, in the runs of two concurrent booking requests
MaxConcurrentFaults == 2
\* the same, in the runs of two booking requests and an availability request
MaxSchedulingFaults == 1
\* events in the data array of a payload passed to validateEventPayload
MaxPayloadEvents == 1

----------------------------------------------------------------------------
(* Clock times and the overlap test, src/server.js:28-74 *)

Times == {<<15, 30>>, <<16, 0>>, <<16, 55>>}

Durations == {30, 55}

Intervals ==
    {[from |-> p[1], to |-> p[2]] :
        p \in {q \in Times \X Times : q[1][1] * 60 + q[1][2] < q[2][1] * 60 + q[2][2]}}

timeToMinutes(timeString) == timeString[1] * 60 + timeString[2]

IsArray(obj, fld) == fld \in DOMAIN obj

\* a faulty variant of Overlaps: a non-strict comparison on the slot's end
OverlapsInclusive(slotMinutes, slotEndMinutes, interval) ==
    /\ slotMinutes < timeToMinutes(interval.to)
    /\ timeToMinutes(interval.from) <= slotEndMinutes

\* the test of lines 55 and 66
Overlaps(slotMinutes, slotEndMinutes, interval) ==
    /\ slotMinutes < timeToMinutes(interval.to)
    /\ timeToMinutes(interval.from) < slotEndMinutes

\* the inner for loops (lines 52-59, 63-70): TRUE when some entry from
\* index i on makes the function return false
RECURSIVE ConflictFrom(_, _, _, _)
ConflictFrom(list, i, slotMinutes, slotEndMinutes) ==
    IF i > Len(list) THEN FALSE
    ELSE IF Overlaps(slotMinutes, slotEndMinutes, list[i]) THEN TRUE
    ELSE ConflictFrom(list, i + 1, slotMinutes, slotEndMinutes)

GroupConflicts(intervalGroup, slotMinutes, slotEndMinutes) ==
    \/ /\ IsArray(intervalGroup, "reserved_time")
       /\ ConflictFrom(intervalGroup.reserved_time, 1, slotMinutes, slotEndMinutes)
    \/ /\ IsArray(intervalGroup, "not_worked_time")
       /\ ConflictFrom(intervalGroup.not_worked_time, 1, slotMinutes, slotEndMinutes)

\* the outer for loop (line 49), from group g on
RECURSIVE FreeFrom(_, _, _, _)
FreeFrom(reservedIntervals, g, slotMinutes, slotEndMinutes) ==
    IF g > Len(reservedIntervals) THEN TRUE
    ELSE IF GroupConflicts(reservedIntervals[g], slotMinutes, slotEndMinutes) THEN FALSE
    ELSE FreeFrom(reservedIntervals, g + 1, slotMinutes, slotEndMinutes)

\* a faulty variant of isTimeSlotFree: only the slot's start is tested against the
\* entries, its duration is not considered
isTimeSlotFreeStartOnly(timeSlot, reservedIntervals, duration) ==
    LET slotMinutes == timeToMinutes(timeSlot)
    IN  FreeFrom(reservedIntervals, 1, slotMinutes, slotMinutes + 1)

isTimeSlotFree(timeSlot, reservedIntervals, serviceDuration) ==
    LET slotMinutes == timeToMinutes(timeSlot)
        slotEndMinutes == slotMinutes + serviceDuration
    IN  FreeFrom(reservedIntervals, 1, slotMinutes, slotEndMinutes)

----------------------------------------------------------------------------
(* Inputs of the direct calls of isTimeSlotFree *)

SeqsUpTo(S, n) == UNION {[1..k -> S] : k \in 0..n}

\* the interval groups of one date: each of the two arrays is absent, or a
\* list of entries
GroupShapes ==
    LET lists == SeqsUpTo(Intervals, MaxEntries)
    IN  {[type |-> "reserved"]}
        \cup {[type |-> "reserved", reserved_time |-> l] : l \in lists}
        \cup {[type |-> "busy_time", not_worked_time |-> l] : l \in lists}
        \cup {[type |-> "reserved", reserved_time |-> p[1], not_worked_time |-> p[2]] :
                p \in {q \in lists \X lists : Len(q[1]) + Len(q[2]) <= MaxEntries}}

NoProbe == [timeSlot |-> <<0, 0>>, groups |-> <<>>, duration |-> 0]

----------------------------------------------------------------------------
(* Configuration and fixed tables *)

\* config.serviceDuration; the default of the parameter at src/server.js:44
serviceDuration == 55

\* src/server.js:695
maxRetries == 3

\* src/server.js:197
allowedUnits == <<4, 10>>

\* src/server.js:200 and 592
CoachName(unitId) == IF unitId = 4 THEN "Mason" ELSE "Josh"

\* the concurrent POST /api/book-session requests
Requests == {1, 2}

\* what the requests ask for: one date, two start times whose 55-minute
\* sessions overlap, the two units
BookDates == {"2025-01-06"}
BookTimes == {<<15, 30>>, <<16, 0>>}
BookUnits == {4, 10}

\* messages of upstream error objects; String.includes is case-sensitive
NotAvailableMessage == "Selected time is not available"
UpstreamErrors == {NotAvailableMessage, "Internal error"}
\* a faulty variant of IncludesNotAvailable: equality instead of a substring test
IncludesNotAvailableExact(message) == message = "not available"
\* message.includes('not available'), src/server.js:808
IncludesNotAvailable(message) == message = NotAvailableMessage

\* messages of the errors makeAPIRequest rejects with, src/server.js:397, 403
RequestFailed == "Request failed: socket hang up"
ParseFailed == "Failed to parse response: Unexpected token"
\* reading .result of null, src/server.js:837
NullResultError == "Cannot read properties of null (reading 'result')"

----------------------------------------------------------------------------
(* The upstream: SimplyBook's bookings, and what its calls answer *)

RECURSIVE EntriesOf(_, _, _)
EntriesOf(bookings, date, unit) ==
    IF bookings = <<>> THEN <<>>
    ELSE LET b == Head(bookings)
             rest == EntriesOf(Tail(bookings), date, unit)
         IN  IF b.date = date /\ b.unit = unit
             THEN <<[from |-> b.from, to |-> b.to]>> \o rest
             ELSE rest

\* an upstream call may come back with anything but its regular answer
\* only while the budget of upstream faults lasts
Spend(outcome) ==
    LET fault == outcome \notin {"result", "data"}
    IN  /\ fault => faultsLeft > 0
        /\ faultsLeft' = IF fault THEN faultsLeft - 1 ELSE faultsLeft

\* result[date] of getReservedTimeIntervals for one unit
ReservedGroups(bookings, date, unit) ==
    << [type |-> "reserved", reserved_time |-> EntriesOf(bookings, date, unit)],
       [type |-> "busy_time", not_worked_time |-> <<>>] >>

\* reservedResult.result?.[bookingDate] || [] (lines 649, 725): an answer
\* that is an error object has no result
ReservedOf(outcome, bookings, date, unit) ==
    IF outcome = "data" THEN ReservedGroups(bookings, date, unit) ELSE <<>>

\* the end time of the book call, src/server.js:739-746
BookEndTime(startTime, duration) ==
    LET hour == startTime[1]
        minute == startTime[2]
        endMinute == minute + duration
    IN  IF endMinute >= 60 THEN <<hour + 1, endMinute - 60>> ELSE <<hour, endMinute>>

----------------------------------------------------------------------------
(* POST /api/book-session, src/server.js:573-888.                          *)
(* Each action is one resumption of the async handler: the upstream        *)
(* answers the call the request is waiting on (or that call fails, or the  *)
(* backoff timer fires) and the handler runs to its next await or to its   *)
(* response.  calls lists the upstream calls in the order they were        *)
(* issued, answers what each of them came back with.                       *)

NoResponse == [status |-> 0]

\* the fields of the test of line 595
RequiredFields ==
    {"start_time", "service_id", "unit_id", "client_name", "client_email", "client_phone"}

\* a body has all the required fields or lacks one of them; start_time and
\* unit_id say what a complete body asks for
Bodies ==
    [start_time : BookDates \X BookTimes, unit_id : BookUnits,
     missing : {{}} \cup {{f} : f \in RequiredFields}]

\* complete bodies that name a unit outside allowedUnits; unit_id is taken
\* from the body as it is, line 591
UnlistedBodies ==
    {[start_time |-> <<d, <<16, 0>>>>, unit_id |-> 7, missing |-> {}] : d \in BookDates}

\* a request before it arrives, with the body it will carry
NewRequest(body) ==
    [pc |-> "idle",
     start_time |-> body.start_time,
     unit_id |-> body.unit_id,
     missing |-> body.missing,
     complete |-> \A f \in RequiredFields : f \notin body.missing,   \* line 595
     attempt |-> 0,
     clientId |-> 0,
     bookingResult |-> [kind |-> "null"],
     lastError |-> "null",
     reservedIntervals |-> <<>>,   \* the const of line 649
     recheckIntervals |-> <<>>,    \* the const of line 725, one per iteration
     calls |-> <<>>,
     answers |-> <<>>,
     delays |-> 0,
     res |-> NoResponse]

\* an upstream call is issued: it is logged and the handler waits for it
Call(rq, method, at) ==
    [rq EXCEPT !.pc = at,
               !.calls = Append(@, [method |-> method, attempt |-> rq.attempt])]

\* the pending call came back
Answered(rq, outcome, message) ==
    [rq EXCEPT !.answers = Append(@, [outcome |-> outcome, message |-> message])]

\* a variant of Respond without the return: the response is sent and the
\* handler goes on from where it is
RespondWithoutReturn(rq, response) == [rq EXCEPT !.res = response]

\* res.status(..).json(..) followed by return
Respond(rq, response) == [rq EXCEPT !.pc = "done", !.res = response]

ErrorResponse(status, parts) == [status |-> status, error |-> parts]

SlotTaken == ErrorResponse(409, <<"This time slot is no longer available">>)

\* the catch of the whole handler, lines 884-887
ProcessingFailed(message) ==
    ErrorResponse(500, <<"Failed to process booking: ", message>>)

\* const [bookingDate, bookingTime] = start_time.split(' '), line 600
bookingDate(rq) == rq.start_time[1]
bookingTime(rq) == rq.start_time[2]

\* a variant of ReceiveBooking without the test of line 595
ReceiveBookingUnvalidated(r) ==
    /\ bk[r].pc = "idle"
    /\ bk' = [bk EXCEPT ![r] = Call(@, "getUserToken", "getUserToken")]
    /\ UNCHANGED <<recentEvents, now, cv, serverOffset, faultsLeft, probe, probeResult, upstream, av>>

\* lines 573-617: the body is validated and the admin token requested
ReceiveBooking(r) ==
    /\ bk[r].pc = "idle"
    /\ bk' = [bk EXCEPT ![r] =
          IF ~@.complete
          THEN Respond(@, ErrorResponse(400, <<"Missing required fields">>))
          ELSE Call(@, "getUserToken", "getUserToken")]
    /\ UNCHANGED <<recentEvents, now, cv, serverOffset, faultsLeft, probe, probeResult, upstream, av>>

\* a faulty variant of AfterToken: an error object in the answer is not looked at
AfterTokenUnchecked(rq, outcome) ==
    IF outcome = "throw" THEN Respond(rq, ProcessingFailed(RequestFailed))
    ELSE Call(rq, "getReservedTimeIntervals", "check")

\* a faulty variant of AfterToken: a token another request obtained is used
\* when the request's own token call answers an error
AfterTokenShared(rq, outcome) ==
    CASE outcome = "result" -> Call(rq, "getReservedTimeIntervals", "check")
      [] outcome = "error" ->
           IF \E r \in Requests :
                  Len(bk[r].answers) >= 1 /\ bk[r].answers[1].outcome = "result"
           THEN Call(rq, "getReservedTimeIntervals", "check")
           ELSE Respond(rq, ErrorResponse(500, <<"Failed to get admin access token">>))
      [] outcome = "throw" -> Respond(rq, ProcessingFailed(RequestFailed))

\* lines 619-641: the answer of the token call is inspected; step 2 asks
\* for the reserved intervals of the booking date
AfterToken(rq, outcome) ==
    CASE outcome = "result" -> Call(rq, "getReservedTimeIntervals", "check")
      [] outcome = "error" ->
           Respond(rq, ErrorResponse(500, <<"Failed to get admin access token">>))
      [] outcome = "throw" -> Respond(rq, ProcessingFailed(RequestFailed))

AdminTokenReturns(r) ==
    /\ bk[r].pc = "getUserToken"
    /\ \E outcome \in {"result", "error", "throw"} :
          /\ Spend(outcome)
          /\ bk' = [bk EXCEPT ![r] = AfterToken(Answered(@, outcome, ""), outcome)]
    /\ UNCHANGED <<recentEvents, now, cv, serverOffset, probe, probeResult, upstream, av>>

\* lines 641-680: the step-2 check, then addClient
AvailabilityReturns(r) ==
    /\ bk[r].pc = "check"
    /\ \E outcome \in {"data", "error", "throw"} :
          /\ Spend(outcome)
          /\ LET fetched == ReservedOf(outcome, upstream, bookingDate(bk[r]), bk[r].unit_id)
                 got == Answered(bk[r], outcome, "")
                 rq == [got EXCEPT !.reservedIntervals = fetched]
             IN  bk' = [bk EXCEPT ![r] =
                     IF outcome = "throw" THEN Respond(got, ProcessingFailed(RequestFailed))
                     ELSE IF ~isTimeSlotFree(bookingTime(rq), fetched, serviceDuration)
                     THEN Respond(rq, SlotTaken)
                     ELSE Call(rq, "addClient", "addClient")]
    /\ UNCHANGED <<recentEvents, now, cv, serverOffset, probe, probeResult, upstream, av>>

\* a faulty variant of StartAttempt: only the first attempt re-checks the slot
StartAttemptCached(rq) ==
    IF rq.attempt = 0
    THEN Call([rq EXCEPT !.attempt = @ + 1, !.recheckIntervals = <<>>],
              "getReservedTimeIntervals", "recheck")
    ELSE Call([rq EXCEPT !.attempt = @ + 1], "book", "book")

\* lines 699-720: the top of the retry loop for the next attempt
StartAttempt(rq) ==
    Call([rq EXCEPT !.attempt = @ + 1, !.recheckIntervals = <<>>],
         "getReservedTimeIntervals", "recheck")

\* a faulty variant of AfterAddClient: an answer without a client id is accepted
AfterAddClientNoId(rq, outcome) ==
    CASE outcome \in {"result", "empty"} -> StartAttempt([rq EXCEPT !.clientId = 7])
      [] outcome = "error" ->
           Respond(rq, ErrorResponse(500, <<"Failed to create client: ", "Internal error">>))
      [] outcome = "throw" ->
           Respond(rq, ErrorResponse(500, <<"Failed to create client: ", RequestFailed>>))

\* lines 682-720: on a client id the retry loop starts
AfterAddClient(rq, outcome) ==
    CASE outcome = "result" -> StartAttempt([rq EXCEPT !.clientId = 7])
      [] outcome = "error" ->
           Respond(rq, ErrorResponse(500, <<"Failed to create client: ", "Internal error">>))
      [] outcome = "empty" ->
           Respond(rq, ErrorResponse(500, <<"Failed to create client: ", "Unknown error">>))
      [] outcome = "throw" ->
           Respond(rq, ErrorResponse(500, <<"Failed to create client: ", RequestFailed>>))

AddClientReturns(r) ==
    /\ bk[r].pc = "addClient"
    /\ \E outcome \in {"result", "error", "empty", "throw"} :
          /\ Spend(outcome)
          /\ bk' = [bk EXCEPT ![r] = AfterAddClient(Answered(@, outcome, ""), outcome)]
    /\ UNCHANGED <<recentEvents, now, cv, serverOffset, probe, probeResult, upstream, av>>

\* a faulty variant of AfterLoop: the failure test reads lastError
AfterLoopLastError(rq) ==
    IF rq.lastError # "null"
    THEN Respond(rq, ErrorResponse(500, <<"Failed to create booking: ", rq.lastError>>))
    ELSE Call(rq, "getReservedTimeIntervals", "verify")

\* lines 832-857, reached by break and when the loop runs out
AfterLoop(rq) ==
    CASE rq.bookingResult.kind = "error" ->
           Respond(rq, ErrorResponse(500, <<"Failed to create booking: ", rq.lastError>>))
      [] rq.bookingResult.kind = "null" ->
           Respond(rq, ProcessingFailed(NullResultError))
      [] rq.bookingResult.kind = "result" ->
           Call(rq, "getReservedTimeIntervals", "verify")

\* a faulty variant of AttemptFailed: the loop bound is off by one
AttemptFailedOffByOne(rq) ==
    IF rq.attempt <= maxRetries
    THEN [rq EXCEPT !.pc = "backoff", !.delays = @ + 1]
    ELSE AfterLoop(rq)

\* lines 812-816 and 825-828: wait one second unless this was the last
\* attempt, then go round the loop
AttemptFailed(rq) ==
    IF rq.attempt < maxRetries
    THEN [rq EXCEPT !.pc = "backoff", !.delays = @ + 1]
    ELSE AfterLoop(rq)

\* lines 725-799: the book call is issued if the slot is still free
AfterRecheck(rq) ==
    IF ~isTimeSlotFree(bookingTime(rq), rq.recheckIntervals, serviceDuration)
    THEN Respond(rq, SlotTaken)
    ELSE Call(rq, "book", "book")

\* lines 717-799 and the catch at 821-829: the re-check of an attempt returns
RecheckReturns(r) ==
    /\ bk[r].pc = "recheck"
    /\ \E outcome \in {"data", "error", "throw"} :
          /\ Spend(outcome)
          /\ LET fetched == ReservedOf(outcome, upstream, bookingDate(bk[r]), bk[r].unit_id)
                 got == Answered(bk[r], outcome, IF outcome = "throw" THEN RequestFailed ELSE "")
             IN  bk' = [bk EXCEPT ![r] =
                     IF outcome = "throw"
                     THEN AttemptFailed([got EXCEPT !.lastError = RequestFailed])
                     ELSE AfterRecheck([got EXCEPT !.recheckIntervals = fetched])]
    /\ UNCHANGED <<recentEvents, now, cv, serverOffset, probe, probeResult, upstream, av>>

\* the booking the book call of rq asks for, lines 774-790
BookingOf(r, rq) ==
    [date |-> bookingDate(rq), unit |-> rq.unit_id,
     from |-> bookingTime(rq), to |-> BookEndTime(bookingTime(rq), serviceDuration),
     by |-> r]

\* a variant of AfterBookError without the test of line 808: every error
\* object is retried after the delay
AfterBookErrorRetriesAll(rq, message) ==
    AttemptFailed([rq EXCEPT !.bookingResult = [kind |-> "error", message |-> message],
                             !.lastError = message])

\* lines 803-820: an error object in the answer of the book call
AfterBookError(rq, message) ==
    LET failed == [rq EXCEPT !.bookingResult = [kind |-> "error", message |-> message],
                             !.lastError = message]
    IN  IF IncludesNotAvailable(message)
        THEN Respond(failed, SlotTaken)
        ELSE AttemptFailed(failed)

\* lines 796-857: the book call returns.  The upstream may book, answer an
\* error object, or the call may fail, before ("throw") or after ("lost")
\* the booking took effect upstream
BookReturns(r) ==
    /\ bk[r].pc = "book"
    /\ \/ /\ Spend("result")
          /\ upstream' = Append(upstream, BookingOf(r, bk[r]))
          /\ bk' = [bk EXCEPT ![r] =
                AfterLoop([Answered(@, "result", "") EXCEPT
                              !.bookingResult = [kind |-> "result", id |-> Len(upstream) + 1]])]
       \/ /\ Spend("error")
          /\ UNCHANGED upstream
          /\ \E message \in UpstreamErrors :
                bk' = [bk EXCEPT ![r] = AfterBookError(Answered(@, "error", message), message)]
       \/ /\ Spend("throw")
          /\ UNCHANGED upstream
          /\ bk' = [bk EXCEPT ![r] =
                AttemptFailed([Answered(@, "throw", RequestFailed) EXCEPT
                                  !.lastError = RequestFailed])]
       \/ /\ Spend("lost")
          /\ upstream' = Append(upstream, BookingOf(r, bk[r]))
          /\ bk' = [bk EXCEPT ![r] =
                AttemptFailed([Answered(@, "lost", ParseFailed) EXCEPT
                                  !.lastError = ParseFailed])]
    /\ UNCHANGED <<recentEvents, now, cv, serverOffset, probe, probeResult, av>>

\* line 815 or 827 resolves: the next iteration of the loop
BackoffEnds(r) ==
    /\ bk[r].pc = "backoff"
    /\ bk' = [bk EXCEPT ![r] = StartAttempt(@)]
    /\ UNCHANGED <<recentEvents, now, cv, serverOffset, faultsLeft, probe, probeResult, upstream, av>>

\* res.json of lines 876-882
SuccessResponse(rq) ==
    [status |-> 200,
     success |-> TRUE,
     booking_id |-> rq.bookingResult.id,
     message |-> <<"Booking confirmed with ", CoachName(rq.unit_id), " for ",
                   rq.start_time, "!">>,
     coach_name |-> CoachName(rq.unit_id),
     unit_id |-> rq.unit_id]

\* a faulty variant of AfterVerification: a failure of the verification call is
\* not caught around the call and reaches the catch of the whole handler
AfterVerificationUncaught(rq, outcome) ==
    IF outcome = "throw" THEN Respond(rq, ProcessingFailed(RequestFailed))
    ELSE Respond(rq, SuccessResponse(rq))

\* lines 844-882: the try around the verification only logs, then the
\* success response is sent
AfterVerification(rq, outcome) == Respond(rq, SuccessResponse(rq))

\* lines 857-882: the verification call returns the day's groups ("data"),
\* a result without the booking date ("empty"), an error object, or fails.
\* What line 870 logs is kept as the message of the answer.
VerificationReturns(r) ==
    /\ bk[r].pc = "verify"
    /\ \E outcome \in {"data", "empty", "error", "throw"} :
          /\ Spend(outcome)
          /\ LET testReservedIntervals ==
                     ReservedOf(outcome, upstream, bookingDate(bk[r]), bk[r].unit_id)
                 isTimeReserved ==
                     ~isTimeSlotFree(bookingTime(bk[r]), testReservedIntervals, serviceDuration)
                 logged == CASE outcome = "throw" -> RequestFailed
                             [] isTimeReserved -> "YES"
                             [] OTHER -> "NO"
             IN  bk' = [bk EXCEPT ![r] =
                     AfterVerification(Answered(@, outcome, logged), outcome)]
    /\ UNCHANGED <<recentEvents, now, cv, serverOffset, probe, probeResult, upstream, av>>

BookingStep(r) ==
    \/ ReceiveBooking(r)
    \/ AdminTokenReturns(r)
    \/ AvailabilityReturns(r)
    \/ AddClientReturns(r)
    \/ RecheckReturns(r)
    \/ BookReturns(r)
    \/ BackoffEnds(r)
    \/ VerificationReturns(r)

\* another client of SimplyBook books a slot: the upstream is shared with
\* parties this server does not see
ExternalBooking ==
    /\ Cardinality({i \in DOMAIN upstream : upstream[i].by = 0}) < MaxExternal
    /\ \E d \in BookDates, t \in BookTimes, u \in BookUnits :
          upstream' = Append(upstream,
              [date |-> d, unit |-> u, from |-> t,
               to |-> BookEndTime(t, serviceDuration), by |-> 0])
    /\ UNCHANGED <<recentEvents, now, cv, serverOffset, faultsLeft, probe, probeResult, bk, av>>

----------------------------------------------------------------------------
(* filterAvailableSlots, src/server.js:77-132 *)

\* config.workingHours, as documented in src/SIMPLYBOOK_FIXES.md:206-210
workingHours ==
    [start |-> 16, end |-> 18,
     days |-> {"Monday", "Tuesday", "Wednesday", "Thursday", "Friday"}]

\* the dates of the model in calendar order: a Friday, a Saturday, a Sunday
\* and a Monday
Dates == <<"2025-01-03", "2025-01-04", "2025-01-05", "2025-01-06">>

Weekdays ==
    <<"Sunday", "Monday", "Tuesday", "Wednesday", "Thursday", "Friday", "Saturday">>

\* the day of the week, counted from Sunday = 0, at midnight UTC of a date
UTCDay(date) ==
    CASE date = "2025-01-03" -> 5
      [] date = "2025-01-04" -> 6
      [] date = "2025-01-05" -> 0
      [] date = "2025-01-06" -> 1

\* getTimezoneOffset() (line 141) of the zones a server may run in: minutes
\* behind UTC, so positive west of Greenwich
ServerOffsets == {300, 0, -60}

\* new Date(date).toLocaleDateString('en-US', {weekday: 'long'}), line 82:
\* a date-only string is parsed as midnight UTC and the weekday is that of
\* this instant in the server's zone, the evening before when the zone is
\* behind UTC
dayOfWeek(date) ==
    LET back == IF serverOffset > 0 THEN 1 ELSE 0
    IN  Weekdays[((UTCDay(date) + 7 - back) % 7) + 1]

\* a variant of DayReserved: a date without an entry counts as fully taken
DayReservedOrClosed(reservedIntervals, date) ==
    IF date \in DOMAIN reservedIntervals THEN reservedIntervals[date]
    ELSE <<[type |-> "busy_time",
            not_worked_time |-> <<[from |-> <<0, 0>>, to |-> <<23, 59>>]>>]>>

\* reservedIntervals[date] || [], line 92
DayReserved(reservedIntervals, date) ==
    IF date \in DOMAIN reservedIntervals THEN reservedIntervals[date] ELSE <<>>

\* lines 108-128 for the times of one date from index i on
RECURSIVE FilterTimes(_, _, _, _, _, _)
FilterTimes(date, times, i, dayReserved, wh, duration) ==
    IF i > Len(times) THEN <<>>
    ELSE LET time == times[i]
             \* slotTime = hour + minute / 60 against the window, in minutes
             inHours == /\ timeToMinutes(time) >= wh.start * 60
                        /\ timeToMinutes(time) < wh.end * 60
             rest == FilterTimes(date, times, i + 1, dayReserved, wh, duration)
         IN  IF inHours /\ isTimeSlotFree(time, dayReserved, duration)
             THEN <<[start_time |-> <<date, time>>, available |-> TRUE]>> \o rest
             ELSE rest

\* timeMatrix is the list of <<date, times>> in the order of its keys
RECURSIVE FilterFrom(_, _, _, _, _)
FilterFrom(timeMatrix, k, reservedIntervals, wh, duration) ==
    IF k > Len(timeMatrix) THEN <<>>
    ELSE LET date == timeMatrix[k][1]
             times == timeMatrix[k][2]
             rest == FilterFrom(timeMatrix, k + 1, reservedIntervals, wh, duration)
         IN  IF dayOfWeek(date) \notin wh.days THEN rest
             ELSE FilterTimes(date, times, 1, DayReserved(reservedIntervals, date),
                              wh, duration) \o rest

filterAvailableSlots(timeMatrix, reservedIntervals, wh, duration) ==
    FilterFrom(timeMatrix, 1, reservedIntervals, wh, duration)

----------------------------------------------------------------------------
(* POST /api/available-slots, src/server.js:135-365 *)

\* getStartTimeMatrix of the upstream: the theoretical start times
TheoreticalTimes ==
    << <<15, 30>>, <<16, 0>>, <<16, 30>>, <<17, 0>>, <<17, 30>>, <<18, 0>> >>
TimeMatrixOf(unit) == [k \in 1..Len(Dates) |-> <<Dates[k], TheoreticalTimes>>]

\* reservedResult.result || {}, line 259
ReservedMap(outcome, bookings, unit) ==
    IF outcome = "data"
    THEN [d \in {Dates[k] : k \in 1..Len(Dates)} |-> ReservedGroups(bookings, d, unit)]
    ELSE [d \in {} |-> <<>>]

DateIndex(date) == CHOOSE k \in 1..Len(Dates) : Dates[k] = date

\* the characters of a clock time as the upstream writes it, zero-padded
TimeDigits(t) == <<t[1] \div 10, t[1] % 10, t[2] \div 10, t[2] % 10>>

\* x.localeCompare(y) < 0 on two texts of digits of the same length
RECURSIVE TextBefore(_, _)
TextBefore(x, y) ==
    IF x = <<>> \/ y = <<>> THEN FALSE
    ELSE IF Head(x) # Head(y) THEN Head(x) < Head(y)
    ELSE TextBefore(Tail(x), Tail(y))

\* a faulty variant of SlotBefore: slots of equal date and time count as out
\* of order
SlotNotAfter(a, b) ==
    LET da == DateIndex(a.start_time[1])
        db == DateIndex(b.start_time[1])
    IN  \/ da < db
        \/ da = db /\ ~TextBefore(TimeDigits(b.start_time[2]), TimeDigits(a.start_time[2]))

\* the comparator of lines 292-304 returning a negative number: the dates
\* compared as text (ISO dates, so in calendar order), then the times
SlotBefore(a, b) ==
    LET da == DateIndex(a.start_time[1])
        db == DateIndex(b.start_time[1])
    IN  \/ da < db
        \/ da = db /\ TextBefore(TimeDigits(a.start_time[2]), TimeDigits(b.start_time[2]))

\* Array.prototype.sort is stable: x goes after everything not after it
RECURSIVE InsertSlot(_, _)
InsertSlot(sorted, x) ==
    IF sorted = <<>> THEN <<x>>
    ELSE IF SlotBefore(x, Head(sorted)) THEN <<x>> \o sorted
    ELSE <<Head(sorted)>> \o InsertSlot(Tail(sorted), x)

RECURSIVE SortSlots(_)
SortSlots(slots) ==
    IF slots = <<>> THEN <<>>
    ELSE InsertSlot(SortSlots(SubSeq(slots, 1, Len(slots) - 1)), slots[Len(slots)])

\* the request asks for the dates of the model: req.body.start_date and
\* req.body.end_date are the first and the last of them
NewAvRequest ==
    [pc |-> "idle", start_date |-> Dates[1], end_date |-> Dates[Len(Dates)],
     unit |-> 0, timeMatrix |-> <<>>, allAvailableSlots |-> <<>>,
     calls |-> <<>>, answers |-> <<>>, res |-> NoResponse]

\* an upstream call of the availability request, logged with the index of
\* the unit it is for (0 before the loop over the units); a data call is
\* logged with the first two of its params (lines 209-211, 242-244, 322-324)
AvCall(rq, method, at) ==
    LET call == IF method \in {"getToken", "getUserToken"}
                THEN [method |-> method, unit |-> rq.unit]
                ELSE [method |-> method, unit |-> rq.unit,
                      start_date |-> rq.start_date, end_date |-> rq.end_date]
    IN  [rq EXCEPT !.pc = at, !.calls = Append(@, call)]

FetchFailed(message) ==
    ErrorResponse(500, <<"Failed to fetch available slots: ", message>>)

\* lines 135-161
ReceiveSlots ==
    /\ av.pc = "idle"
    /\ av' = AvCall(av, "getToken", "getToken")
    /\ UNCHANGED <<recentEvents, now, cv, serverOffset, faultsLeft, probe, probeResult, upstream, bk>>

\* lines 163-185: the answer of the public token call is inspected
AfterPublicToken(rq, outcome) ==
    CASE outcome = "result" -> AvCall(rq, "getUserToken", "getUserToken")
      [] outcome = "error" ->
           Respond(rq, ErrorResponse(500, <<"Failed to get public access token">>))
      [] outcome = "throw" -> Respond(rq, FetchFailed(RequestFailed))

PublicTokenReturns ==
    /\ av.pc = "getToken"
    /\ \E outcome \in {"result", "error", "throw"} :
          /\ Spend(outcome)
          /\ av' = AfterPublicToken(Answered(av, outcome, ""), outcome)
    /\ UNCHANGED <<recentEvents, now, cv, serverOffset, probe, probeResult, upstream, bk>>

\* a variant of UnitLoop without the summary loop: past the last unit the
\* sorted slots are sent at once
UnitLoopWithoutSummary(rq, k) ==
    IF k <= Len(allowedUnits)
    THEN AvCall([rq EXCEPT !.unit = k, !.timeMatrix = <<>>], "getStartTimeMatrix", "matrix")
    ELSE Respond([rq EXCEPT !.allAvailableSlots = SortSlots(@)],
                 [status |-> 200, result |-> SortSlots(rq.allAvailableSlots)])

\* the head of the loop over allowedUnits for the unit at index k (lines
\* 199-224); past the last unit the slots are sorted and the summary loop
\* asks for the reserved intervals of the first unit again (lines 292-334)
UnitLoop(rq, k) ==
    IF k <= Len(allowedUnits)
    THEN AvCall([rq EXCEPT !.unit = k, !.timeMatrix = <<>>], "getStartTimeMatrix", "matrix")
    ELSE AvCall([rq EXCEPT !.unit = 1, !.timeMatrix = <<>>,
                           !.allAvailableSlots = SortSlots(@)],
                "getReservedTimeIntervals", "summary")

\* a faulty variant of AfterSlotsAdminToken: an error object is not looked at
AfterSlotsAdminTokenUnchecked(rq, outcome) ==
    IF outcome = "throw" THEN Respond(rq, FetchFailed(RequestFailed))
    ELSE UnitLoop(rq, 1)

\* lines 187-224: the answer of the admin token call is inspected
AfterSlotsAdminToken(rq, outcome) ==
    CASE outcome = "result" -> UnitLoop(rq, 1)
      [] outcome = "error" ->
           Respond(rq, ErrorResponse(500, <<"Failed to get admin access token">>))
      [] outcome = "throw" -> Respond(rq, FetchFailed(RequestFailed))

SlotsAdminTokenReturns ==
    /\ av.pc = "getUserToken"
    /\ \E outcome \in {"result", "error", "throw"} :
          /\ Spend(outcome)
          /\ av' = AfterSlotsAdminToken(Answered(av, outcome, ""), outcome)
    /\ UNCHANGED <<recentEvents, now, cv, serverOffset, probe, probeResult, upstream, bk>>

\* lines 221-254 and the catch at 285-288
TimeMatrixReturns ==
    /\ av.pc = "matrix"
    /\ \E outcome \in {"data", "error", "throw"} :
          /\ Spend(outcome)
          /\ LET got == Answered(av, outcome, "")
             IN  av' = IF outcome = "data"
                       THEN AvCall([got EXCEPT !.timeMatrix = TimeMatrixOf(allowedUnits[av.unit])],
                                   "getReservedTimeIntervals", "reserved")
                       ELSE UnitLoop(got, av.unit + 1)
    /\ UNCHANGED <<recentEvents, now, cv, serverOffset, probe, probeResult, upstream, bk>>

\* lines 251-288: the unit's slots are filtered, tagged and collected
SlotsReservedReturns ==
    /\ av.pc = "reserved"
    /\ \E outcome \in {"data", "error", "throw"} :
          /\ Spend(outcome)
          /\ LET unitId == allowedUnits[av.unit]
                 got == Answered(av, outcome, "")
                 reservedIntervals == ReservedMap(outcome, upstream, unitId)
                 availableSlots ==
                     filterAvailableSlots(av.timeMatrix, reservedIntervals,
                                          workingHours, serviceDuration)
                 tagged == [i \in 1..Len(availableSlots) |->
                               [start_time |-> availableSlots[i].start_time,
                                available |-> availableSlots[i].available,
                                unit_id |-> unitId,
                                coach_name |-> CoachName(unitId)]]
             IN  av' = IF outcome = "throw"
                       THEN UnitLoop(got, av.unit + 1)
                       ELSE UnitLoop([got EXCEPT !.allAvailableSlots = @ \o tagged],
                                     av.unit + 1)
    /\ UNCHANGED <<recentEvents, now, cv, serverOffset, probe, probeResult, upstream, bk>>

\* lines 313-359: the summary loop only logs; after its last unit the
\* result is sent
SummaryReturns ==
    /\ av.pc = "summary"
    /\ \E outcome \in {"data", "error", "throw"} :
          /\ Spend(outcome)
          /\ LET got == Answered(av, outcome, "")
             IN  av' = IF av.unit < Len(allowedUnits)
                       THEN AvCall([got EXCEPT !.unit = @ + 1],
                                   "getReservedTimeIntervals", "summary")
                       ELSE Respond(got, [status |-> 200, result |-> av.allAvailableSlots])
    /\ UNCHANGED <<recentEvents, now, cv, serverOffset, probe, probeResult, upstream, bk>>

SlotsStep ==
    \/ ReceiveSlots
    \/ PublicTokenReturns
    \/ SlotsAdminTokenReturns
    \/ TimeMatrixReturns
    \/ SlotsReservedReturns
    \/ SummaryReturns

----------------------------------------------------------------------------
(* The conversions backend, src/backend.  An object with optional fields   *)
(* is a record that has the field or not.  Each action is one resumption   *)
(* of a handler; the clock has moved on by then.                           *)

\* the concurrent requests to /api/conversions
ConvRequests == {1, 2}

\* src/backend/controllers/conversionsController.js:49
MaxRecentEvents == 100

\* .max(100) of src/backend/middleware/validation.js:47
MaxBatchEvents == 100

\* const { limit = 20 } = req.query, conversionsController.js:146
DefaultLimit == 20

Has(obj, fld) == fld \in DOMAIN obj

\* { ...a, ...b }
Spread(a, b) ==
    [k \in DOMAIN a \cup DOMAIN b |-> IF k \in DOMAIN b THEN b[k] ELSE a[k]]

EmptyObject == [k \in {} |-> ""]

RawEmail == "Jo@Example.com"
RawPhone == "+44 7700 900123"

\* crypto.createHash('sha256').update(text).digest('hex')
Sha256(text) == <<"sha256", text>>

\* email.toLowerCase().trim(), facebookApi.js:130
LowerTrim(text) == IF text = RawEmail THEN "jo@example.com" ELSE text

\* phone.replace(/\D/g, ''), facebookApi.js:141
DigitsOnly(text) == IF text = RawPhone THEN "447700900123" ELSE text

hashEmail(email) == Sha256(LowerTrim(email))

hashPhone(phone) == Sha256(DigitsOnly(phone))

\* facebookApi.js:172-186; exported, and called by no handler
prepareUserData(userData) ==
    [k \in DOMAIN userData |->
        CASE k = "em" -> hashEmail(userData[k])
          [] k = "ph" -> hashPhone(userData[k])
          [] OTHER -> userData[k]]

\* what a client may put into user_data
UserDatas == {[fbp |-> "fb.1.1700000000.1"], [em |-> RawEmail, ph |-> RawPhone]}

\* bodies of POST /event
EventBodies ==
    {[event_name |-> "Lead"], [event_name |-> ""],
     [event_name |-> "Lead", utm_source |-> "newsletter"]}
        \cup {[event_name |-> "Lead", user_data |-> u] : u \in UserDatas}
        \cup {[user_data |-> u] : u \in {[em |-> RawEmail, ph |-> RawPhone]}}

\* events of the bodies of POST /batch
BatchEvents ==
    {[event_name |-> "Purchase", event_time |-> 3],
     [event_name |-> "Purchase", event_time |-> 0],
     [event_name |-> "Lead", user_data |-> [em |-> RawEmail, ph |-> RawPhone]],
     [event_time |-> 3]}

Repeat(e, n) == [k \in 1..n |-> e]

BatchBodies ==
    {[events |-> Repeat(e, n)] : e \in BatchEvents, n \in {1, MaxBatchEvents}}
        \cup {[events |-> <<>>],
              [events |-> <<[event_name |-> "Purchase", event_time |-> 3,
                             utm_source |-> "newsletter"]>>,
               source |-> "crm"],
              [events |-> Repeat([event_name |-> "Purchase", event_time |-> 3],
                                 MaxBatchEvents + 1)],
              [events |-> <<[event_name |-> "Purchase", event_time |-> 3],
                            [event_name |-> "Lead",
                             user_data |-> [em |-> RawEmail, ph |-> RawPhone]]>>]}

\* req.query of GET /status
StatusQueries == {EmptyObject, [limit |-> "1"], [limit |-> "-1"], [limit |-> "abc"]}

ConvInputs ==
    {[kind |-> "event", body |-> b] : b \in EventBodies}
        \cup {[kind |-> "batch", body |-> b] : b \in BatchBodies}
        \cup {[kind |-> "status", body |-> q] : q \in StatusQueries}
        \cup {[kind |-> "test", body |-> EmptyObject]}

NoPayload == [data |-> <<>>]

NewConvRequest(input) ==
    [pc |-> "idle", kind |-> input.kind, body |-> input.body,
     payload |-> NoPayload, res |-> NoResponse]

\* messages of the errors sendToFacebookAPI throws, facebookApi.js:14, 61
FacebookErrors == {"Facebook Pixel ID is not configured", "Facebook API request timed out"}

\* response.data of a call Facebook accepted
FacebookData(payload) == [events_received |-> Len(payload.data)]

ValidationFailed == [status |-> 400, success |-> FALSE, error |-> "Validation failed"]

\* conversionEventSchema, validation.js:4-36, on the bodies of the model
ValidEvent(body) == Has(body, "event_name") /\ body.event_name # ""

\* a variant of ValidBatch without the .max(100) of the events array
ValidBatchUnbounded(body) ==
    /\ Len(body.events) >= 1
    /\ \A k \in DOMAIN body.events :
          Has(body.events[k], "event_name") /\ body.events[k].event_name # ""

\* batchEventsSchema, validation.js:39-48
ValidBatch(body) ==
    /\ Len(body.events) >= 1
    /\ Len(body.events) <= MaxBatchEvents
    /\ \A k \in DOMAIN body.events :
          Has(body.events[k], "event_name") /\ body.events[k].event_name # ""

\* stripUnknown: true, validation.js:56 and 83: the keys the schema names
StripUnknown(obj, known) == [k \in DOMAIN obj \cap known |-> obj[k]]

\* the value of conversionEventSchema.validate, validation.js:54
ValidatedEvent(body) ==
    StripUnknown(body, {"event_name", "event_data", "user_data", "custom_data"})

\* the value of batchEventsSchema.validate, validation.js:81
ValidatedBatch(body) ==
    [events |-> [k \in DOMAIN body.events |->
                    StripUnknown(body.events[k],
                                 {"event_name", "event_time", "user_data", "custom_data"})]]

\* the fields the handlers add to user_data, lines 22-23, 103-104, 183-184
ClientFields == [client_ip_address |-> "203.0.113.7", client_user_agent |-> "Mozilla/5.0"]

\* conversionsController.js:14-33 with the clock at time
EventPayload(body, time) ==
    [data |->
        <<[event_name |-> body.event_name,
           event_time |-> time \div 1000,
           action_source |-> "website",
           event_source_url |-> "https://miricledev.github.io/inner-performance-lp-1/",
           user_data |-> Spread(IF Has(body, "user_data") THEN body.user_data
                                ELSE EmptyObject, ClientFields),
           custom_data |-> [content_name |-> body.event_name,
                            content_category |-> "conversion"]]>>,
     access_token |-> "FACEBOOK_ACCESS_TOKEN"]

\* conversionsController.js:95-109
BatchPayload(body, time) ==
    [data |->
        [k \in 1..Len(body.events) |->
            LET event == body.events[k]
            IN  Spread(event,
                    [event_time |-> IF Has(event, "event_time") /\ event.event_time # 0
                                    THEN event.event_time   \* a || b, line 98
                                    ELSE time \div 1000,
                     action_source |-> "website",
                     event_source_url |-> "https://yourdomain.com",
                     user_data |-> Spread(IF Has(event, "user_data") THEN event.user_data
                                          ELSE EmptyObject, ClientFields)])],
     access_token |-> "FACEBOOK_ACCESS_TOKEN"]

\* conversionsController.js:176-193
TestPayload(time) ==
    [data |->
        <<[event_name |-> "TestEvent",
           event_time |-> time \div 1000,
           action_source |-> "website",
           event_source_url |-> "https://yourdomain.com/test",
           user_data |-> ClientFields,
           custom_data |-> [content_name |-> "Test Event", content_category |-> "test"]]>>,
     access_token |-> "FACEBOOK_ACCESS_TOKEN",
     test_event_code |-> "TEST12345"]

\* isValidEmail, facebookApi.js:150-153, on the strings of the model
isValidEmail(email) == email = "jo@example.com"

\* isValidPhone, facebookApi.js:160-165: 7 to 15 digits
isValidPhone(phone) == phone = RawPhone

\* a JS value is truthy: an object or an array is, an empty string is not
Truthy(value) == value.type \in {"array", "object"}

\* the errors of lines 92-116 for the event at place k (index k - 1)
EventErrors(data, k) ==
    LET event == data.items[k]
        missing(fld) == IF Has(event, fld) THEN <<>>
                        ELSE << <<"Event ", k - 1, ": ", fld, " is required">> >>
        format == IF ~Has(event, "user_data") THEN <<>>
                  ELSE (IF Has(event.user_data, "em") /\ ~isValidEmail(event.user_data.em)
                        THEN << <<"Event ", k - 1, ": Invalid email format in user_data.em">> >>
                        ELSE <<>>)
                       \o (IF Has(event.user_data, "ph") /\ ~isValidPhone(event.user_data.ph)
                           THEN << <<"Event ", k - 1, ": Invalid phone format in user_data.ph">> >>
                           ELSE <<>>)
    IN  missing("event_name") \o missing("event_time") \o missing("action_source")
            \o format

RECURSIVE ErrorsFrom(_, _)
ErrorsFrom(data, k) ==
    IF k > Len(data.items) THEN <<>> ELSE EventErrors(data, k) \o ErrorsFrom(data, k + 1)

\* validateEventPayload, facebookApi.js:77-121.  eventPayload.data is a
\* tagged value: an array with its items, or an object or a string, which
\* have no forEach
validateEventPayload(eventPayload) ==
    LET hasData == Has(eventPayload, "data") /\ Truthy(eventPayload.data)
        isArray == hasData /\ eventPayload.data.type = "array"
        \* each message is the tuple of its parts
        head == (IF ~isArray THEN << <<"data field is required and must be an array">> >>
                 ELSE <<>>)
                \o (IF ~Has(eventPayload, "access_token")
                    THEN << <<"access_token is required">> >> ELSE <<>>)
    IN  IF hasData /\ ~isArray
        THEN [threw |-> TRUE,
              message |-> "eventPayload.data.forEach is not a function"]
        ELSE LET errors == head \o (IF isArray THEN ErrorsFrom(eventPayload.data, 1)
                                    ELSE <<>>)
             IN  [threw |-> FALSE, isValid |-> errors = <<>>, errors |-> errors]

\* sendToFacebookAPI(payload) is called and the handler waits for it
Send(rq, payload) == [rq EXCEPT !.pc = "sending", !.payload = payload]

\* a faulty variant of Unshift: the new record takes the place of the newest one
UnshiftOver(list, record) ==
    IF list = <<>> THEN <<record>> ELSE <<record>> \o Tail(list)

\* recentEvents.unshift(record)
Unshift(list, record) == <<record>> \o list

\* a variant of Pop that removes the first record: recentEvents.shift()
PopNewest(list) == Tail(list)

\* recentEvents.pop()
Pop(list) == SubSeq(list, 1, Len(list) - 1)

\* a variant of StoreSuccess that keeps a full list as it is
StoreSuccessIfRoom(list, record) ==
    IF Len(list) >= MaxRecentEvents THEN list ELSE Unshift(list, record)

\* conversionsController.js:46-51
StoreSuccess(list, record) ==
    LET stored == Unshift(list, record)
    IN  IF Len(stored) > MaxRecentEvents THEN Pop(stored) ELSE stored

\* the record of conversionsController.js:115-121 for the event at place k
BatchRecord(events, k, time) ==
    [id |-> <<time, k>>,
     event_name |-> events[k].event_name,
     timestamp |-> time,
     status |-> "success",
     batch |-> TRUE]

\* a variant of StoreBatch that cuts the list at MaxRecentEvents records
StoreBatchTrimmed(list, events, time) ==
    LET n == Len(events)
        len == IF n + Len(list) > MaxRecentEvents THEN MaxRecentEvents ELSE n + Len(list)
    IN  [i \in 1..len |->
            IF i <= n THEN BatchRecord(events, n + 1 - i, time) ELSE list[i - n]]

\* the forEach of conversionsController.js:114-123: one unshift per event,
\* which leaves the records of the batch in reverse order before the list
StoreBatch(list, events, time) ==
    LET n == Len(events)
    IN  [i \in 1..(n + Len(list)) |->
            IF i <= n THEN BatchRecord(events, n + 1 - i, time) ELSE list[i - n]]

\* validateConversionEvent, then lines 11-36 of sendConversionEvent
ReceiveEvent(r) ==
    /\ cv[r].pc = "idle"
    /\ cv[r].kind = "event"
    /\ now' = now + 1
    /\ cv' = [cv EXCEPT ![r] =
          IF ~ValidEvent(@.body) THEN Respond(@, ValidationFailed)
          ELSE \* req.body = value; next()
               Send([@ EXCEPT !.body = ValidatedEvent(@)],
                    EventPayload(ValidatedEvent(@.body), now'))]
    /\ UNCHANGED <<recentEvents, serverOffset, probe, probeResult, upstream, faultsLeft, bk, av>>

\* lines 36-78 of sendConversionEvent: the call returns or throws
EventSent(r) ==
    /\ cv[r].pc = "sending"
    /\ cv[r].kind = "event"
    /\ now' = now + 1
    /\ \/ LET data == FacebookData(cv[r].payload)
              eventRecord == [id |-> now', event_name |-> cv[r].body.event_name,
                              timestamp |-> now', status |-> "success",
                              response |-> data]
          IN  /\ recentEvents' = StoreSuccess(recentEvents, eventRecord)
              /\ cv' = [cv EXCEPT ![r] = Respond(@,
                     [status |-> 200, success |-> TRUE,
                      message |-> "Conversion event sent successfully",
                      event_id |-> eventRecord.id,
                      facebook_response |-> data])]
       \/ \E message \in FacebookErrors :
             LET failedEvent == [id |-> now', event_name |-> cv[r].body.event_name,
                                 timestamp |-> now', status |-> "failed",
                                 error |-> message]
             IN  /\ recentEvents' = Unshift(recentEvents, failedEvent)
                 /\ cv' = [cv EXCEPT ![r] = Respond(@,
                        [status |-> 500, success |-> FALSE,
                         error |-> "Failed to send conversion event",
                         details |-> message])]
    /\ UNCHANGED <<serverOffset, probe, probeResult, upstream, faultsLeft, bk, av>>

\* validateBatchEvents, then lines 86-111 of sendBatchEvents
ReceiveBatch(r) ==
    /\ cv[r].pc = "idle"
    /\ cv[r].kind = "batch"
    /\ now' = now + 1
    /\ cv' = [cv EXCEPT ![r] =
          IF ~ValidBatch(@.body) THEN Respond(@, ValidationFailed)
          ELSE IF Len(@.body.events) = 0
          THEN Respond(@, [status |-> 400, success |-> FALSE,
                           error |-> "Events array is required and must not be empty"])
          ELSE \* req.body = value; next()
               Send([@ EXCEPT !.body = ValidatedBatch(@)],
                    BatchPayload(ValidatedBatch(@.body), now'))]
    /\ UNCHANGED <<recentEvents, serverOffset, probe, probeResult, upstream, faultsLeft, bk, av>>

\* lines 111-138 of sendBatchEvents
BatchSent(r) ==
    /\ cv[r].pc = "sending"
    /\ cv[r].kind = "batch"
    /\ now' = now + 1
    /\ \/ /\ recentEvents' = StoreBatch(recentEvents, cv[r].body.events, now')
          /\ cv' = [cv EXCEPT ![r] = Respond(@,
                 [status |-> 200, success |-> TRUE,
                  message |-> <<"Successfully sent ", Len(@.body.events), " events">>,
                  facebook_response |-> FacebookData(@.payload)])]
       \/ /\ UNCHANGED recentEvents
          /\ \E message \in FacebookErrors :
                cv' = [cv EXCEPT ![r] = Respond(@,
                    [status |-> 500, success |-> FALSE,
                     error |-> "Failed to send batch events",
                     details |-> message])]
    /\ UNCHANGED <<serverOffset, probe, probeResult, upstream, faultsLeft, bk, av>>

\* parseInt of the query strings of the model; <<>> stands for NaN
parseInt(limit) ==
    CASE limit = "1" -> <<1>>
      [] limit = "-1" -> <<-1>>
      [] OTHER -> <<>>

\* a variant of Slice that takes the records from the end of the list:
\* recentEvents.slice(-end)
SliceLast(list, end) ==
    LET len == Len(list)
        n == IF end = <<>> THEN 0 ELSE end[1]
        k == IF n < 0 THEN (IF len + n < 0 THEN 0 ELSE len + n)
             ELSE (IF n < len THEN n ELSE len)
    IN  SubSeq(list, len - k + 1, len)

\* recentEvents.slice(0, end): NaN counts as 0, a negative end counts from
\* the end of the list
Slice(list, end) ==
    LET len == Len(list)
        n == IF end = <<>> THEN 0 ELSE end[1]
        k == IF n < 0 THEN (IF len + n < 0 THEN 0 ELSE len + n)
             ELSE (IF n < len THEN n ELSE len)
    IN  SubSeq(list, 1, k)

CountStatus(list, status) == Cardinality({k \in DOMAIN list : list[k].status = status})

\* getEventStatus, conversionsController.js:144-168; it awaits nothing
GetEventStatus(r) ==
    /\ cv[r].pc = "idle"
    /\ cv[r].kind = "status"
    /\ now' = now + 1
    /\ LET \* parseInt(limit), which leaves the default, a number, as it is
           limit == IF Has(cv[r].body, "limit") THEN parseInt(cv[r].body.limit)
                    ELSE <<DefaultLimit>>
           stats == [total |-> Len(recentEvents),
                     successful |-> CountStatus(recentEvents, "success"),
                     failed |-> CountStatus(recentEvents, "failed"),
                     recent_events |-> Slice(recentEvents, limit)]
       IN  cv' = [cv EXCEPT ![r] =
                 Respond(@, [status |-> 200, success |-> TRUE, stats |-> stats])]
    /\ UNCHANGED <<recentEvents, serverOffset, probe, probeResult, upstream, faultsLeft, bk, av>>

\* lines 173-195 of testEndpoint
ReceiveTest(r) ==
    /\ cv[r].pc = "idle"
    /\ cv[r].kind = "test"
    /\ now' = now + 1
    /\ cv' = [cv EXCEPT ![r] = Send(@, TestPayload(now'))]
    /\ UNCHANGED <<recentEvents, serverOffset, probe, probeResult, upstream, faultsLeft, bk, av>>

\* lines 195-212 of testEndpoint
TestSent(r) ==
    /\ cv[r].pc = "sending"
    /\ cv[r].kind = "test"
    /\ now' = now + 1
    /\ \/ cv' = [cv EXCEPT ![r] = Respond(@,
              [status |-> 200, success |-> TRUE,
               message |-> "Test event sent successfully",
               facebook_response |-> FacebookData(@.payload)])]
       \/ \E message \in FacebookErrors :
             cv' = [cv EXCEPT ![r] = Respond(@,
                 [status |-> 500, success |-> FALSE,
                  error |-> "Test failed", details |-> message])]
    /\ UNCHANGED <<recentEvents, serverOffset, probe, probeResult, upstream, faultsLeft, bk, av>>

ConversionsStep(r) ==
    \/ ReceiveEvent(r)
    \/ EventSent(r)
    \/ ReceiveBatch(r)
    \/ BatchSent(r)
    \/ GetEventStatus(r)
    \/ ReceiveTest(r)
    \/ TestSent(r)

----------------------------------------------------------------------------
(* The specifications *)

NoAvRequest == [NewAvRequest EXCEPT !.pc = "off"]

Pending == [called |-> FALSE, value |-> FALSE]

Off(body) == [NewRequest(body) EXCEPT !.pc = "off"]

\* no conversions request, an empty event list, the clock at five seconds
NoConversions ==
    /\ recentEvents = <<>>
    /\ now = 5000
    /\ cv = [r \in ConvRequests |->
                [NewConvRequest([kind |-> "status", body |-> EmptyObject]) EXCEPT !.pc = "off"]]

AnyBody == CHOOSE b \in Bodies : TRUE

\* Spec: one request, a booking request or an availability request, beside
\* other clients of the upstream
Init ==
    /\ NoConversions
    /\ probe = NoProbe
    /\ probeResult = Pending
    /\ upstream = <<>>
    /\ faultsLeft = MaxFaults
    /\ \/ /\ \E body \in Bodies \cup UnlistedBodies :
                bk = [r \in Requests |-> IF r = 1 THEN NewRequest(body) ELSE Off(body)]
          /\ av = NoAvRequest
          /\ serverOffset = 0    \* the booking handler computes no weekday
       \/ /\ bk = [r \in Requests |-> Off(AnyBody)]
          /\ av = NewAvRequest
          /\ serverOffset \in ServerOffsets

Next ==
    \/ BookingStep(1)
    \/ SlotsStep
    \/ ExternalBooking

Spec == Init /\ [][Next]_vars

\* SpecBookingFair: one booking request beside other clients of the
\* upstream; every upstream call of the request comes back, with a response
\* or a failure, and the one-second timer of the retry loop fires, so a
\* step of the request that can be taken is eventually taken
InitBookingFair ==
    /\ NoConversions
    /\ probe = NoProbe
    /\ probeResult = Pending
    /\ upstream = <<>>
    /\ faultsLeft = MaxFaults
    /\ serverOffset = 0
    /\ \E body \in Bodies :
          bk = [r \in Requests |-> IF r = 1 THEN NewRequest(body) ELSE Off(body)]
    /\ av = NoAvRequest

NextBookingFair ==
    \/ BookingStep(1)
    \/ ExternalBooking

SpecBookingFair ==
    InitBookingFair /\ [][NextBookingFair]_vars /\ WF_vars(BookingStep(1))

\* SpecConcurrent: two booking requests for the same date, time and unit
InitConcurrent ==
    /\ NoConversions
    /\ probe = NoProbe
    /\ probeResult = Pending
    /\ upstream = <<>>
    /\ faultsLeft = MaxConcurrentFaults
    /\ serverOffset = 0
    /\ \E body \in {b \in Bodies : b.missing = {} /\ b.unit_id = 4} :
          bk = [r \in Requests |-> NewRequest(body)]
    /\ av = NoAvRequest

NextConcurrent == \E r \in Requests : BookingStep(r)

SpecConcurrent == InitConcurrent /\ [][NextConcurrent]_vars

\* SpecScheduling: two booking requests for the same date, time and unit
\* and an availability request, all in progress at once
InitScheduling ==
    /\ NoConversions
    /\ probe = NoProbe
    /\ probeResult = Pending
    /\ upstream = <<>>
    /\ faultsLeft = MaxSchedulingFaults
    /\ serverOffset = 0
    /\ \E body \in {b \in Bodies : b.missing = {} /\ b.unit_id = 4 /\ b.start_time[2] = <<16, 0>>} :
          bk = [r \in Requests |-> NewRequest(body)]
    /\ av = NewAvRequest

NextScheduling ==
    \/ \E r \in Requests : BookingStep(r)
    \/ SlotsStep

SpecScheduling == InitScheduling /\ [][NextScheduling]_vars

\* SpecFree: isTimeSlotFree called directly on every input within the bounds
InitFree ==
    /\ NoConversions
    /\ probe \in [timeSlot : Times,
                   groups : SeqsUpTo(GroupShapes, MaxGroups),
                   duration : Durations]
    /\ probeResult = Pending
    /\ serverOffset = 0
    /\ upstream = <<>>
    /\ faultsLeft = 0
    /\ bk = [r \in Requests |-> Off(AnyBody)]
    /\ av = NoAvRequest

CallIsTimeSlotFree ==
    /\ ~probeResult.called
    /\ probeResult' = [called |-> TRUE,
                       value |-> isTimeSlotFree(probe.timeSlot, probe.groups, probe.duration)]
    /\ UNCHANGED <<recentEvents, now, cv, serverOffset, faultsLeft, probe, upstream, bk, av>>

NextFree == CallIsTimeSlotFree

SpecFree == InitFree /\ [][NextFree]_vars

\* SpecFilter: filterAvailableSlots called directly, in every server zone,
\* on a time matrix of some of the dates with some of the theoretical times
\* and on reserved data that are absent, empty, or hold one booking a day
RECURSIVE Pick(_, _, _)
Pick(list, keep, i) ==
    IF i > Len(list) THEN <<>>
    ELSE (IF i \in keep THEN <<list[i]>> ELSE <<>>) \o Pick(list, keep, i + 1)

TimeMatrices ==
    {LET dates == Pick(Dates, p[1], 1)
         times == Pick(TheoreticalTimes, p[2], 1)
     IN  [k \in 1..Len(dates) |-> <<dates[k], times>>] :
        p \in (SUBSET (1..Len(Dates))) \X (SUBSET (1..Len(TheoreticalTimes)))}

ReservedData ==
    LET allDates == {Dates[k] : k \in 1..Len(Dates)}
    IN  {[d \in {} |-> <<>>],
         [d \in allDates |-> <<>>],
         \* a group without arrays, an empty list, and no entry for the rest
         [d \in {Dates[1], Dates[2]} |->
             IF d = Dates[1] THEN <<[type |-> "reserved"]>> ELSE <<>>],
         [d \in allDates |->
             <<[type |-> "reserved",
                reserved_time |-> <<[from |-> <<16, 0>>, to |-> <<16, 55>>]>>],
               [type |-> "busy_time", not_worked_time |-> <<>>]>>]}

InitFilter ==
    /\ NoConversions
    /\ probe \in [timeMatrix : TimeMatrices, reservedIntervals : ReservedData]
    /\ probeResult = Pending
    /\ serverOffset \in ServerOffsets
    /\ upstream = <<>>
    /\ faultsLeft = 0
    /\ bk = [r \in Requests |-> Off(AnyBody)]
    /\ av = NoAvRequest

CallFilterAvailableSlots ==
    /\ ~probeResult.called
    /\ probeResult' =
          [called |-> TRUE,
           value |-> filterAvailableSlots(probe.timeMatrix, probe.reservedIntervals,
                                          workingHours, serviceDuration)]
    /\ UNCHANGED <<recentEvents, now, cv, serverOffset, faultsLeft, probe, upstream, bk, av>>

NextFilter == CallFilterAvailableSlots

SpecFilter == InitFilter /\ [][NextFilter]_vars

\* SpecConversions: two requests to /api/conversions, of any kind and body
InitConversions ==
    /\ probe = NoProbe
    /\ probeResult = Pending
    /\ serverOffset = 0
    /\ upstream = <<>>
    /\ faultsLeft = 0
    /\ bk = [r \in Requests |-> Off(AnyBody)]
    /\ av = NoAvRequest
    /\ recentEvents = <<>>
    /\ now = 5000
    /\ cv \in [ConvRequests -> {NewConvRequest(input) : input \in ConvInputs}]

NextConversions == \E r \in ConvRequests : ConversionsStep(r)

SpecConversions == InitConversions /\ [][NextConversions]_vars

\* SpecPayload: direct calls of validateEventPayload, which no handler
\* calls.  The events have any of the three required fields and user_data
\* of either format
PayloadEvents ==
    {[f \in fields |-> CASE f = "event_name" -> "Lead"
                          [] f = "event_time" -> 5
                          [] f = "action_source" -> "website"
                          [] OTHER -> u] :
        fields \in {F \cup U : F \in SUBSET {"event_name", "event_time", "action_source"},
                                U \in {{}, {"user_data"}}},
        u \in {[em |-> "jo@example.com"], [em |-> "not-an-email", ph |-> RawPhone],
                [ph |-> "12"]}}

DataValues ==
    {[type |-> "array", items |-> l] : l \in SeqsUpTo(PayloadEvents, MaxPayloadEvents)}
        \cup {[type |-> "object"], [type |-> "string"]}

EventPayloads ==
    {[data |-> d, access_token |-> "FACEBOOK_ACCESS_TOKEN"] : d \in DataValues}
        \cup {[data |-> d] : d \in DataValues}
        \cup {[access_token |-> "FACEBOOK_ACCESS_TOKEN"], EmptyObject}

InitPayload ==
    /\ NoConversions
    /\ probe \in EventPayloads
    /\ probeResult = Pending
    /\ serverOffset = 0
    /\ upstream = <<>>
    /\ faultsLeft = 0
    /\ bk = [r \in Requests |-> Off(AnyBody)]
    /\ av = NoAvRequest

CallValidateEventPayload ==
    /\ ~probeResult.called
    /\ probeResult' = [called |-> TRUE, value |-> validateEventPayload(probe)]
    /\ UNCHANGED <<recentEvents, now, cv, serverOffset, faultsLeft, probe, upstream, bk, av>>

NextPayload == CallValidateEventPayload

SpecPayload == InitPayload /\ [][NextPayload]_vars

\* SpecEndTime: the end time computation of the book call on start times
\* through the day and on durations config.serviceDuration may hold
EndTimeInputs ==
    [startTime : {15, 16, 17, 22, 23} \X {0, 5, 30, 59},
     duration : {30, 55, 60, 90, 120}]

InitEndTime ==
    /\ NoConversions
    /\ probe \in EndTimeInputs
    /\ probeResult = Pending
    /\ serverOffset = 0
    /\ upstream = <<>>
    /\ faultsLeft = 0
    /\ bk = [r \in Requests |-> Off(AnyBody)]
    /\ av = NoAvRequest

CallBookEndTime ==
    /\ ~probeResult.called
    /\ probeResult' = [called |-> TRUE,
                       value |-> BookEndTime(probe.startTime, probe.duration)]
    /\ UNCHANGED <<recentEvents, now, cv, serverOffset, faultsLeft, probe, upstream, bk, av>>

NextEndTime == CallBookEndTime

SpecEndTime == InitEndTime /\ [][NextEndTime]_vars

----------------------------------------------------------------------------
(* The claims.  Times are compared in minutes since midnight, computed     *)
(* here from the clock time itself.                                        *)

ClockMinutes(t) == 60 * t[1] + t[2]

ListEntries(group, fld) ==
    IF fld \in DOMAIN group THEN {group[fld][i] : i \in DOMAIN group[fld]} ELSE {}

\* every entry of every group's reserved_time and not_worked_time
EntriesIn(groups) ==
    UNION {ListEntries(groups[g], "reserved_time")
             \cup ListEntries(groups[g], "not_worked_time") : g \in DOMAIN groups}

\* some entry R has S < R.to and R.from < S + d
Covered(S, d, groups) ==
    \E R \in EntriesIn(groups) :
        /\ ClockMinutes(S) < ClockMinutes(R.to)
        /\ ClockMinutes(R.from) < ClockMinutes(S) + d

FourToFiveToFive == [from |-> <<16, 0>>, to |-> <<16, 55>>]

\* C1: isTimeSlotFree returns false exactly when some entry R of some
\* group's reserved_time or not_worked_time has S < R.to and R.from < S + d;
\* with the entry 16:00-16:55 and d = 55 the slots 16:00 and 15:30 are not
\* free and the slot 16:55 is free.
C1_OverlapIff ==
    probeResult.called =>
        /\ probeResult.value = ~Covered(probe.timeSlot, probe.duration, probe.groups)
        /\ (probe.duration = 55 /\ FourToFiveToFive \in EntriesIn(probe.groups)
              /\ probe.timeSlot \in {<<16, 0>>, <<15, 30>>}) => ~probeResult.value
        /\ (probe.duration = 55 /\ EntriesIn(probe.groups) = {FourToFiveToFive}
              /\ probe.timeSlot = <<16, 55>>) => probeResult.value

\* a slot ending exactly where an entry starts has been reported free
C1_Witness ==
    /\ probeResult.called
    /\ probeResult.value
    /\ probe.timeSlot = <<15, 30>>
    /\ probe.duration = 30
    /\ EntriesIn(probe.groups) = {FourToFiveToFive}

\* C2: of two concurrent booking requests for the same date, time and unit
\* at most one ends with a success response.
C2_AtMostOneSuccess ==
    ~(bk[1].res.status = 200 /\ bk[2].res.status = 200)

\* the answers the calls of one method came back with, in order
RECURSIVE AnswersTo(_, _, _)
AnswersTo(rq, method, i) ==
    IF i > Len(rq.answers) THEN <<>>
    ELSE (IF rq.calls[i].method = method THEN <<rq.answers[i]>> ELSE <<>>)
             \o AnswersTo(rq, method, i + 1)

CountCalls(rq, method) ==
    Cardinality({i \in DOMAIN rq.calls : rq.calls[i].method = method})

\* a failed call or an error object whose message lacks "not available"
Transient(answer) ==
    /\ answer.outcome \in {"error", "throw", "lost"}
    /\ answer.message # NotAvailableMessage

C3_Case ==
    LET b == AnswersTo(bk[1], "book", 1)
    IN  /\ bk[1].pc = "done"
        /\ Len(b) = 3
        /\ Transient(b[1])
        /\ Transient(b[2])
        /\ b[3].outcome = "result"

\* C3: transient book errors on attempts 1 and 2 and success on attempt 3
\* end in a success response after exactly 3 book calls and 2 delays.
C3_ThirdAttemptSucceeds ==
    C3_Case =>
        /\ bk[1].res.status = 200
        /\ bk[1].res.success
        /\ CountCalls(bk[1], "book") = 3
        /\ bk[1].delays = 2

C3_Witness == C3_Case /\ bk[1].res.status = 200 /\ bk[1].lastError = "Internal error"

NotAvailableAt(rq, i) ==
    /\ i <= Len(rq.answers)
    /\ rq.calls[i].method = "book"
    /\ rq.answers[i].outcome = "error"
    /\ rq.answers[i].message = NotAvailableMessage

\* C4: a book call answered with a "not available" error ends the request
\* with 409 at once: it stays the last upstream call and no delay follows.
C4_NotAvailableEnds ==
    \A i \in DOMAIN bk[1].calls :
        NotAvailableAt(bk[1], i) =>
            /\ bk[1].pc = "done"
            /\ bk[1].res.status = 409
            /\ i = Len(bk[1].calls)
            /\ bk[1].delays = bk[1].calls[i].attempt - 1

C4_Witness ==
    \E i \in DOMAIN bk[1].calls :
        NotAvailableAt(bk[1], i) /\ bk[1].calls[i].attempt = 2 /\ bk[1].res.status = 409

\* the third attempt has failed, and so have the two before it
C5_Case ==
    LET rq == bk[1]
        n == Len(rq.calls)
    IN  /\ rq.pc = "done"
        /\ rq.attempt = maxRetries
        /\ Len(rq.answers) = n
        /\ Transient(rq.answers[n])
        /\ \A i \in 1..n : ~(rq.calls[i].method = "book" /\ rq.answers[i].outcome = "result")

\* C5: when all 3 attempts fail with errors other than "not available" the
\* response is 500 and its message carries the error of the third attempt.
C5_LastErrorSurfaced ==
    C5_Case =>
        /\ bk[1].res.status = 500
        /\ bk[1].res.error[Len(bk[1].res.error)] = bk[1].answers[Len(bk[1].answers)].message

Methods(rq) == [i \in 1..Len(rq.calls) |-> rq.calls[i].method]

\* C6: a step-2 check that finds the slot taken ends the request with 409
\* after the token call and that one check, with no addClient or book call.
C6_ConflictAtCheck ==
    Covered(bookingTime(bk[1]), serviceDuration, bk[1].reservedIntervals) =>
        /\ bk[1].pc = "done"
        /\ bk[1].res.status = 409
        /\ Methods(bk[1]) = <<"getUserToken", "getReservedTimeIntervals">>

C6_Witness ==
    /\ Covered(bookingTime(bk[1]), serviceDuration, bk[1].reservedIntervals)
    /\ bk[1].res.status = 409
    /\ bookingTime(bk[1]) = <<15, 30>>

LastCall(rq) == rq.calls[Len(rq.calls)]

\* every book call comes right after the re-check of its own attempt
BookFollowsRecheck(rq) ==
    \A i \in DOMAIN rq.calls :
        rq.calls[i].method = "book" =>
            /\ i > 1
            /\ rq.calls[i - 1] =
                   [method |-> "getReservedTimeIntervals", attempt |-> rq.calls[i].attempt]

\* a re-check whose data show the slot taken has ended the request
TakenEndsRequest(rq) ==
    Covered(bookingTime(rq), serviceDuration, rq.recheckIntervals) =>
        /\ rq.pc = "done"
        /\ rq.res.status = 409
        /\ LastCall(rq) = [method |-> "getReservedTimeIntervals", attempt |-> rq.attempt]

\* the step that issues a book call resumes from the re-check, and the data
\* it acts on are the upstream's answer of that very step (or the empty
\* list of an answer without result) and show the slot free
BookIssuedOnFreshData ==
    (bk'[1].pc = "book" /\ bk[1].pc # "book") =>
        /\ bk[1].pc = "recheck"
        /\ bk'[1].recheckIntervals \in
               {ReservedGroups(upstream, bookingDate(bk[1]), bk[1].unit_id), <<>>}
        /\ ~Covered(bookingTime(bk[1]), serviceDuration, bk'[1].recheckIntervals)

\* C7: every book call is immediately preceded, within its attempt, by a
\* getReservedTimeIntervals call, and is issued only if the data that call
\* fetched show the slot free; a re-check that finds the slot taken ends the
\* request with 409 before any book call of that attempt.
C7_BookAfterFreshCheck ==
    /\ [](BookFollowsRecheck(bk[1]) /\ TakenEndsRequest(bk[1]))
    /\ [][BookIssuedOnFreshData]_vars

\* the book call of a second attempt is in flight while the upstream holds
\* a booking made by somebody else
C7_Witness ==
    /\ bk[1].pc = "book"
    /\ bk[1].attempt = 2
    /\ upstream # <<>>

\* the call at place i of the sequence getUserToken,
\* getReservedTimeIntervals, addClient, (getReservedTimeIntervals, book)*
PairPattern(i) ==
    CASE i = 1 -> "getUserToken"
      [] i = 2 -> "getReservedTimeIntervals"
      [] i = 3 -> "addClient"
      [] i > 3 /\ i % 2 = 0 -> "getReservedTimeIntervals"
      [] OTHER -> "book"

CallCounts(rq) ==
    /\ CountCalls(rq, "getUserToken") <= 1
    /\ CountCalls(rq, "addClient") <= 1
    /\ CountCalls(rq, "book") <= 3

\* C8 as stated: the calls of a request are an initial part of
\* getUserToken, getReservedTimeIntervals, addClient and then
\* (getReservedTimeIntervals, book) pairs.
C8_StrictPairs ==
    /\ \A i \in DOMAIN bk[1].calls : bk[1].calls[i].method = PairPattern(i)
    /\ CallCounts(bk[1])

\* the place of a request in START, TOKEN_ACQUIRED, AVAILABILITY_CONFIRMED,
\* CLIENT_CREATED, BOOKING_ATTEMPTED 1..3, DONE or FAILED
Stage(rq) ==
    CASE rq.pc = "idle" -> 0
      [] rq.pc = "getUserToken" -> 1
      [] rq.pc = "check" -> 2
      [] rq.pc = "addClient" -> 3
      [] rq.pc = "recheck" -> 3 * rq.attempt + 1
      [] rq.pc = "book" -> 3 * rq.attempt + 2
      [] rq.pc = "backoff" -> 3 * rq.attempt + 3
      [] rq.pc = "verify" -> 20
      [] rq.pc = "done" -> 21
      [] OTHER -> 0

CallOrder(rq) ==
    \A i \in DOMAIN rq.calls :
        LET m == rq.calls[i].method
        IN  /\ (m = "getUserToken") = (i = 1)
            /\ i = 2 => m = "getReservedTimeIntervals"
            /\ (m = "addClient") = (i = 3)
            /\ m = "book" => i > 3 /\ rq.calls[i - 1].method = "getReservedTimeIntervals"

\* C8, amended: the request only moves forward through its stages; its
\* calls are getUserToken, getReservedTimeIntervals, addClient, then per
\* attempt one getReservedTimeIntervals call followed by at most one book
\* call, then at most one more getReservedTimeIntervals call; at most one
\* getUserToken, one addClient and 3 book calls.
C8_LinearOrder ==
    /\ [](CallOrder(bk[1]) /\ CallCounts(bk[1]) /\ bk[1].attempt <= 3)
    /\ [][bk'[1] # bk[1] => Stage(bk'[1]) > Stage(bk[1])]_vars

\* a request that succeeded with its third book call
C8_Witness ==
    /\ bk[1].pc = "done"
    /\ bk[1].res.status = 200
    /\ CountCalls(bk[1], "book") = 3

Failed(answer) == answer.outcome \in {"error", "throw"}

EndedWith500After(rq, n) ==
    /\ rq.pc = "done"
    /\ rq.res.status = 500
    /\ Len(rq.calls) = n

\* C9: a token call that answers an error object or fails ends the request
\* with 500 and is its last upstream call: the admin token of a booking
\* request, the public and the admin token of an availability request.
C9_TokenFailureFatal ==
    /\ (Len(bk[1].answers) >= 1 /\ Failed(bk[1].answers[1])) => EndedWith500After(bk[1], 1)
    /\ (Len(av.answers) >= 1 /\ Failed(av.answers[1])) => EndedWith500After(av, 1)
    /\ (Len(av.answers) >= 2 /\ Failed(av.answers[2])) => EndedWith500After(av, 2)

\* the admin token call of an availability request answered an error
C9_Witness ==
    /\ Len(av.answers) = 2
    /\ av.calls[2].method = "getUserToken"
    /\ av.answers[2].outcome = "error"
    /\ av.res.status = 500

AddClientFailedAt(rq, i) ==
    /\ i <= Len(rq.answers)
    /\ rq.calls[i].method = "addClient"
    /\ rq.answers[i].outcome \in {"error", "empty", "throw"}

\* C10: an addClient call that answers an error or no client id, or fails,
\* ends the request with 500; no book call is ever issued.
C10_AddClientFailureFatal ==
    \A i \in DOMAIN bk[1].calls :
        AddClientFailedAt(bk[1], i) =>
            /\ bk[1].pc = "done"
            /\ bk[1].res.status = 500
            /\ i = Len(bk[1].calls)
            /\ CountCalls(bk[1], "book") = 0

\* addClient answered without a client id
C10_Witness ==
    \E i \in DOMAIN bk[1].calls :
        /\ AddClientFailedAt(bk[1], i)
        /\ bk[1].answers[i].outcome = "empty"
        /\ bk[1].res.status = 500

\* the call at place i is the verification of lines 844-874: it follows a
\* book call that returned a booking
IsVerification(rq, i) ==
    /\ i > 1
    /\ rq.calls[i - 1].method = "book"
    /\ rq.answers[i - 1].outcome = "result"

\* the call at place i did not come back with its regular answer
FaultAt(rq, i) ==
    /\ i <= Len(rq.answers)
    /\ rq.answers[i].outcome \notin {"result", "data"}

\* after the call at place i the request went on to its next attempt
RetriedAfter(rq, i) ==
    /\ rq.calls[i].attempt \in 1..(maxRetries - 1)
    /\ \/ i = Len(rq.calls) /\ rq.pc = "backoff"
       \/ /\ i < Len(rq.calls)
          /\ rq.calls[i + 1].attempt = rq.calls[i].attempt + 1

EndedWithoutSuccessAt(rq, i) ==
    /\ rq.pc = "done"
    /\ rq.res.status # 200
    /\ i = Len(rq.calls)

\* C11: no error is swallowed on the booking path: when a token call, a
\* reserved-interval check (step 2 or before an attempt), addClient or book
\* answers an error object or fails, the request retries within the attempt
\* cap or ends without success; in particular a check that answered an
\* error is never followed by addClient or book as if the slot were free.
C11_NoErrorSwallowed ==
    \A i \in DOMAIN bk[1].calls :
        (FaultAt(bk[1], i) /\ ~IsVerification(bk[1], i)) =>
            \/ RetriedAfter(bk[1], i)
            \/ EndedWithoutSuccessAt(bk[1], i)

BookedAt(rq, i) ==
    /\ i <= Len(rq.answers)
    /\ rq.calls[i].method = "book"
    /\ rq.answers[i].outcome = "result"

\* the place upstream of the latest booking made for request r
LatestBookingBy(r) ==
    CHOOSE k \in DOMAIN upstream :
        /\ upstream[k].by = r
        /\ \A j \in DOMAIN upstream : upstream[j].by = r => j <= k

\* C12: once a book call has succeeded the response is the success response
\* with the id of that booking and the coach and unit of the request,
\* whatever the verification call came back with.
C12_VerificationIgnored ==
    \A i \in DOMAIN bk[1].calls :
        (BookedAt(bk[1], i) /\ bk[1].pc = "done") =>
            /\ Len(bk[1].answers) = i + 1
            /\ bk[1].answers[i + 1].outcome \in {"data", "empty", "error", "throw"}
            /\ bk[1].res =
                  [status |-> 200,
                   success |-> TRUE,
                   booking_id |-> LatestBookingBy(1),
                   message |-> <<"Booking confirmed with ",
                                 IF bk[1].unit_id = 4 THEN "Mason" ELSE "Josh",
                                 " for ", bk[1].start_time, "!">>,
                   coach_name |-> IF bk[1].unit_id = 4 THEN "Mason" ELSE "Josh",
                   unit_id |-> bk[1].unit_id]

\* the verification call failed and the request answered success
C12_Witness ==
    /\ bk[1].pc = "done"
    /\ bk[1].res.status = 200
    /\ bk[1].answers[Len(bk[1].answers)].outcome = "throw"
    /\ IsVerification(bk[1], Len(bk[1].calls))

\* the call at place i of the availability request is issued inside the
\* loop over the units: the time matrix, or the reserved intervals asked
\* for right after it
InUnitLoop(rq, i) ==
    \/ rq.calls[i].method = "getStartTimeMatrix"
    \/ /\ rq.calls[i].method = "getReservedTimeIntervals"
       /\ i > 1
       /\ rq.calls[i - 1].method = "getStartTimeMatrix"

UnitsIn(slots) == {slots[k].unit_id : k \in DOMAIN slots}

\* C13: a unit whose time-matrix or reserved-interval call answered an
\* error object or failed contributes no slot, and the request still ends
\* with 200 and the list of slots.
C13_FailedUnitSkipped ==
    \A i \in DOMAIN av.answers :
        (InUnitLoop(av, i) /\ Failed(av.answers[i])) =>
            /\ allowedUnits[av.calls[i].unit] \notin UnitsIn(av.allAvailableSlots)
            /\ av.pc = "done" =>
                  /\ av.res.status = 200
                  /\ allowedUnits[av.calls[i].unit] \notin UnitsIn(av.res.result)

\* the weekday of a date in the calendar
CalendarWeekday(date) ==
    CASE date = "2025-01-03" -> "Friday"
      [] date = "2025-01-04" -> "Saturday"
      [] date = "2025-01-05" -> "Sunday"
      [] date = "2025-01-06" -> "Monday"

ConfiguredDays == {"Monday", "Tuesday", "Wednesday", "Thursday", "Friday"}

\* C14: filterAvailableSlots returns no slot for a date whose weekday is
\* not a working day, whatever the theoretical times and the reserved data.
C14_NoSlotOnNonWorkingDay ==
    probeResult.called =>
        \A k \in DOMAIN probeResult.value :
            CalendarWeekday(probeResult.value[k].start_time[1]) \in ConfiguredDays

ReturnedTimes(date) ==
    {probeResult.value[k].start_time[2] :
        k \in {j \in DOMAIN probeResult.value : probeResult.value[j].start_time[1] = date}}

\* C15: with working hours 16:00-18:00 and duration 55 no returned slot
\* starts before 16:00 or ends after 18:00, so 17:30 is never returned; with
\* no reserved data 16:00 is returned for a working day that offers it.
C15_WithinWorkingHours ==
    probeResult.called =>
        /\ \A k \in DOMAIN probeResult.value :
              LET t == probeResult.value[k].start_time[2]
              IN  /\ ClockMinutes(t) >= 16 * 60
                  /\ ClockMinutes(t) + 55 <= 18 * 60
                  /\ t # <<17, 30>>
        /\ \A k \in DOMAIN probe.timeMatrix :
              LET date == probe.timeMatrix[k][1]
                  times == probe.timeMatrix[k][2]
              IN  (/\ DOMAIN probe.reservedIntervals = {}
                   /\ serverOffset = 0
                   /\ CalendarWeekday(date) \in ConfiguredDays
                   /\ \E j \in DOMAIN times : times[j] = <<16, 0>>)
                      => <<16, 0>> \in ReturnedTimes(date)

Count(list, x) == Cardinality({k \in DOMAIN list : list[k] = x})

UnitPlace(unitId) == CHOOSE k \in 1..Len(allowedUnits) : allowedUnits[k] = unitId

\* date, then time, then the place of the unit in the processing order
InResultOrder(a, b) ==
    LET da == a.start_time[1]
        db == b.start_time[1]
        ta == ClockMinutes(a.start_time[2])
        tb == ClockMinutes(b.start_time[2])
    IN  \/ da # db /\ \E i, j \in 1..Len(Dates) : i < j /\ Dates[i] = da /\ Dates[j] = db
        \/ da = db /\ ta < tb
        \/ da = db /\ ta = tb /\ UnitPlace(a.unit_id) <= UnitPlace(b.unit_id)

ResultSorted ==
    (av.pc = "done" /\ av.res.status = 200) =>
        /\ av.res.result = av.allAvailableSlots
        /\ \A i, j \in DOMAIN av.res.result :
              i < j => InResultOrder(av.res.result[i], av.res.result[j])

\* the slots one unit's answers make filterAvailableSlots accept, tagged
AcceptedOf(timeMatrix, reservedIntervals, unitId) ==
    LET accepted == filterAvailableSlots(timeMatrix, reservedIntervals,
                                         workingHours, serviceDuration)
    IN  [k \in 1..Len(accepted) |->
            [start_time |-> accepted[k].start_time, available |-> TRUE,
             unit_id |-> unitId, coach_name |-> IF unitId = 4 THEN "Mason" ELSE "Josh"]]

SlotsOfStep ==
    {av.allAvailableSlots[k] : k \in DOMAIN av.allAvailableSlots}
        \cup {av'.allAvailableSlots[k] : k \in DOMAIN av'.allAvailableSlots}

\* a step of the request keeps every collected slot as often as it was
\* there, and the step in which a unit's reserved intervals arrive adds
\* each slot accepted for that unit exactly once
NothingLost ==
    LET arrived == /\ av.pc = "reserved"
                   /\ Len(av'.answers) > Len(av.answers)
                   /\ av'.answers[Len(av'.answers)].outcome # "throw"
        unitId == allowedUnits[av.unit]
        reservedIntervals ==
            IF av'.answers[Len(av'.answers)].outcome = "data"
            THEN [d \in {Dates[k] : k \in 1..Len(Dates)} |->
                     ReservedGroups(upstream, d, unitId)]
            ELSE [d \in {} |-> <<>>]
        added == IF arrived THEN AcceptedOf(av.timeMatrix, reservedIntervals, unitId)
                 ELSE <<>>
    IN  /\ \A x \in SlotsOfStep :
              Count(av'.allAvailableSlots, x) = Count(av.allAvailableSlots, x) + Count(added, x)
        /\ \A k \in DOMAIN added : added[k] \in SlotsOfStep

\* C16: the result list is sorted by date, then time; slots of equal date
\* and time keep the order of the units (4 before 10); every slot accepted
\* for a unit is in the list, once per unit that offers it.
C16_MergedAndSorted ==
    /\ []ResultSorted
    /\ [][NothingLost]_vars

\* both units offer the same date and time, and both slots are reported
C16_Witness ==
    /\ av.pc = "done"
    /\ av.res.status = 200
    /\ \E i, j \in DOMAIN av.res.result :
          /\ i < j
          /\ av.res.result[i].start_time = av.res.result[j].start_time
          /\ av.res.result[i].unit_id = 4
          /\ av.res.result[j].unit_id = 10
    /\ \E i, j \in DOMAIN av.res.result :
          av.res.result[i].start_time[1] # av.res.result[j].start_time[1]

\* C17: the event list holds at most 100 records, whatever single-event
\* sends (successful or failed), batch sends and status queries were served.
C17_AtMostHundred == Len(recentEvents) <= 100

\* the user_data the client supplied for the event at place k of the
\* payload of a single-event or batch request
SuppliedUserData(rq, k) ==
    LET event == IF rq.kind = "event" THEN rq.body ELSE rq.body.events[k]
    IN  IF "user_data" \in DOMAIN event THEN event.user_data ELSE [f \in {} |-> ""]

\* C18: in every payload handed to sendToFacebookAPI by the single-event
\* and batch paths a client-supplied em or ph is the SHA-256 of the
\* lower-cased, stripped value, never the raw email or phone number.
C18_OnlyHashed ==
    \A r \in ConvRequests :
        cv[r].kind \in {"event", "batch"} =>
            \A k \in DOMAIN cv[r].payload.data :
                LET supplied == SuppliedUserData(cv[r], k)
                    sent == cv[r].payload.data[k].user_data
                IN  /\ "em" \in DOMAIN supplied =>
                          /\ sent.em # supplied.em
                          /\ sent.em = <<"sha256", "jo@example.com">>
                    /\ "ph" \in DOMAIN supplied =>
                          /\ sent.ph # supplied.ph
                          /\ sent.ph[1] = "sha256"

\* how many records the step of request r inserts
InsertedBy(r) ==
    CASE cv[r].kind = "event" /\ cv[r].pc = "sending" /\ cv'[r].pc = "done" -> 1
      [] cv[r].kind = "batch" /\ cv[r].pc = "sending" /\ cv'[r].res.status = 200 ->
           Len(cv[r].body.events)
      [] OTHER -> 0

\* the list after the step is k new records followed by the records of the
\* list before it, unaltered and in their order, short of some at the end
KeepsRecords(k) ==
    /\ k <= Len(recentEvents')
    /\ Len(recentEvents') - k <= Len(recentEvents)
    /\ \A i \in (k + 1)..Len(recentEvents') : recentEvents'[i] = recentEvents[i - k]

EventListFrame ==
    /\ \A r \in ConvRequests :
          (cv'[r] # cv[r] /\ cv[r].kind \in {"status", "test"}) =>
              recentEvents' = recentEvents
    /\ recentEvents' # recentEvents =>
          \E r \in ConvRequests :
              /\ cv'[r] # cv[r]
              /\ InsertedBy(r) > 0
              /\ KeepsRecords(InsertedBy(r))

\* C19: only the single-event and the batch send path change the event
\* list; a status query and the test endpoint leave it as it is; the
\* records already in the list are never altered.
C19_OnlySendsMutate == [][EventListFrame]_vars

\* a status query answered after an event was recorded, the list untouched
C19_Witness ==
    /\ cv[1].kind = "status"
    /\ cv[1].pc = "done"
    /\ cv[1].res.stats.total = 1
    /\ cv[2].kind = "event"
    /\ Len(recentEvents) = 1
    /\ cv[1].res.stats.recent_events = recentEvents

\* the first calls of a request are its own token calls, and no other call
\* is issued before each of them has answered a token
OwnTokenFirst(rq, tokenCalls) ==
    \A i \in DOMAIN rq.calls :
        IF i <= Len(tokenCalls)
        THEN rq.calls[i].method = tokenCalls[i]
        ELSE \A j \in 1..Len(tokenCalls) : rq.answers[j].outcome = "result"

\* a response without the booking id, which is the upstream's
Outcome(res) == IF res.status = 200 /\ "booking_id" \in DOMAIN res
                THEN [res EXCEPT !.booking_id = 0] ELSE res

\* what a booking request was given: its body and what the upstream
\* answered to each of its calls so far
Given(rq) ==
    <<rq.start_time, rq.unit_id, rq.complete, Len(rq.calls), rq.answers,
      rq.reservedIntervals, rq.recheckIntervals>>

\* where that has taken it
Taken(rq) ==
    <<rq.pc, rq.calls, rq.attempt, rq.delays, rq.lastError, rq.bookingResult.kind,
      Outcome(rq.res)>>

\* two requests given the same are in the same place, whatever else ran
SameGivenSameTaken ==
    \A r1, r2 \in Requests :
        Given(bk[r1]) = Given(bk[r2]) => Taken(bk[r1]) = Taken(bk[r2])

\* a step of one request leaves the other requests as they are, and the
\* reserved intervals a booking request stores are the ones the upstream
\* holds at that step (or none, for an answer without result)
OwnStateOnly ==
    /\ \A r \in Requests :
          bk'[r] # bk[r] =>
              /\ av' = av
              /\ \A q \in Requests \ {r} : bk'[q] = bk[q]
              /\ LET fresh == ReservedGroups(upstream, bookingDate(bk[r]), bk[r].unit_id)
                 IN  /\ bk'[r].reservedIntervals \in {bk[r].reservedIntervals, <<>>, fresh}
                     /\ bk'[r].recheckIntervals \in {bk[r].recheckIntervals, <<>>, fresh}
    /\ av' # av => bk' = bk /\ upstream' = upstream

RECURSIVE DataCalls(_, _)
DataCalls(rq, i) ==
    IF i > Len(rq.calls) THEN <<>>
    ELSE (IF rq.calls[i].method \in {"getToken", "getUserToken"} THEN <<>>
          ELSE << <<rq.calls[i].method, rq.calls[i].unit>> >>)
         \o DataCalls(rq, i + 1)

AllSucceeded(rq) == \A i \in DOMAIN rq.answers : ~Failed(rq.answers[i])

IsPrefix(s, t) == Len(s) <= Len(t) /\ s = SubSeq(t, 1, Len(s))

\* the time matrix and then the reserved intervals, unit after unit
PairCalls ==
    [i \in 1..(2 * Len(allowedUnits)) |->
        <<IF i % 2 = 1 THEN "getStartTimeMatrix" ELSE "getReservedTimeIntervals",
          (i + 1) \div 2>>]

\* the reserved intervals once more, unit after unit
SummaryCalls ==
    [k \in 1..Len(allowedUnits) |-> <<"getReservedTimeIntervals", k>>]

\* a request whose calls all succeeded issues the calls of `expected` in
\* that order, each after the one before it has answered, and responds
\* after the last of them
IssuesInOrder(expected) ==
    AllSucceeded(av) =>
        /\ Len(av.calls) - Len(av.answers) \in {0, 1}
        /\ IsPrefix(DataCalls(av, 1), expected)
        /\ av.pc = "done" =>
              /\ DataCalls(av, 1) = expected
              /\ Len(av.answers) = Len(av.calls)
              /\ av.res.status = 200

RespondsOnce ==
    bk[1].res # NoResponse =>
        /\ bk'[1].res = bk[1].res
        /\ bk'[1].calls = bk[1].calls

\* C22: when every upstream call comes back, a booking request eventually
\* sends a response, which is a 400, a 409, a 500 or the success; it sends
\* one response only and issues no book or addClient call after it; the
\* retry loop makes at most maxRetries attempts.
C22_EventuallyOneResponse ==
    /\ <>(bk[1].pc = "done" /\ bk[1].res.status \in {200, 400, 409, 500})
    /\ [][RespondsOnce]_vars
    /\ [](bk[1].attempt <= maxRetries)
    /\ [](bk[1].res # NoResponse => bk[1].res.status \in {200, 400, 409, 500})

\* the retry loop ran to its end: three attempts failed and a 500 was sent
C22_Witness ==
    /\ bk[1].pc = "done"
    /\ bk[1].attempt = maxRetries
    /\ CountCalls(bk[1], "book") = maxRetries
    /\ bk[1].res.status = 500

\* the clock in unix seconds at some moment between the start and now
InUnixSeconds(t) == 5000 \div 1000 <= t /\ t <= now \div 1000

\* the event at place k of the payload of request rq carries a name, a
\* time and the action source; in a batch a time the client supplied is
\* the time it carries
WellFormedEvent(rq, k) ==
    LET e == rq.payload.data[k]
    IN  /\ Has(e, "event_name") /\ e.event_name # ""
        /\ Has(e, "action_source") /\ e.action_source = "website"
        /\ Has(e, "event_time")
        /\ IF rq.kind = "batch" /\ Has(rq.body.events[k], "event_time")
           THEN e.event_time = rq.body.events[k].event_time
           ELSE InUnixSeconds(e.event_time)

\* C23: every event of every payload handed to sendToFacebookAPI by the
\* single-event, batch and test handlers has a non-empty event_name, an
\* event_time in unix seconds and action_source "website"; in a batch an
\* event_time sent by the client is kept, a missing one is the current time.
C23_PayloadFields ==
    \A r \in ConvRequests :
        \A k \in DOMAIN cv[r].payload.data : WellFormedEvent(cv[r], k)

\* two sessions of 55 minutes starting at a and b share some time
SessionsOverlap(a, b) ==
    /\ ClockMinutes(a) < ClockMinutes(b) + 55
    /\ ClockMinutes(b) < ClockMinutes(a) + 55

HalfHourMatrix == << <<16, 0>>, <<16, 30>>, <<17, 0>>, <<17, 30>> >>

\* C24: for 55-minute sessions and working hours 16-18 no two slots
\* returned for the same date overlap each other, and from the times 16:00,
\* 16:30, 17:00, 17:30 of a working day without reservations exactly 16:00
\* and 17:00 are returned.
C24_ProperlySpaced ==
    probeResult.called =>
        /\ \A k \in DOMAIN probe.timeMatrix :
              \A a, b \in ReturnedTimes(probe.timeMatrix[k][1]) :
                  a # b => ~SessionsOverlap(a, b)
        /\ \A k \in DOMAIN probe.timeMatrix :
              LET date == probe.timeMatrix[k][1]
              IN  (/\ probe.timeMatrix[k][2] = HalfHourMatrix
                   /\ DayReserved(probe.reservedIntervals, date) = <<>>
                   /\ serverOffset = 0
                   /\ CalendarWeekday(date) \in ConfiguredDays)
                      => ReturnedTimes(date) = {<<16, 0>>, <<17, 0>>}

\* the fixed unit table, lines 197-200
UnitTable == [u \in {allowedUnits[k] : k \in DOMAIN allowedUnits} |->
                 IF u = 4 THEN "Mason" ELSE "Josh"]

PairedByTable(x) == x.unit_id \in DOMAIN UnitTable /\ x.coach_name = UnitTable[x.unit_id]

SlotsIn(list) == {list[k] : k \in DOMAIN list}

\* the slots a step of the unit loop adds are tagged with the unit the
\* loop is at
TaggedByUnit ==
    \A slot \in SlotsIn(av'.allAvailableSlots) \ SlotsIn(av.allAvailableSlots) :
        /\ av.pc = "reserved"
        /\ slot.unit_id = allowedUnits[av.unit]
        /\ slot.available = TRUE

\* C25: a response that carries a unit_id and a coach_name pairs them by
\* the unit table (4 with Mason, 10 with Josh): every slot of the
\* availability response is tagged with the unit whose data produced it
\* and is available, and the success response of a booking names the unit
\* that was booked and its coach.
C25_CoachMatchesUnit ==
    /\ [][TaggedByUnit]_vars
    /\ [](/\ \A k \in DOMAIN av.allAvailableSlots : PairedByTable(av.allAvailableSlots[k])
          /\ av.res.status = 200 => av.res.result = av.allAvailableSlots
          /\ bk[1].res.status = 200 =>
                /\ PairedByTable(bk[1].res)
                /\ upstream[LatestBookingBy(1)].unit = bk[1].res.unit_id)

\* C26: a booking request whose unit_id is not one of the allowed units 4
\* and 10 never causes an upstream addClient or book call.
C26_OnlyAllowedUnitsBooked ==
    \A r \in Requests :
        bk[r].unit_id \notin DOMAIN UnitTable =>
            /\ CountCalls(bk[r], "addClient") = 0
            /\ CountCalls(bk[r], "book") = 0
            /\ \A i \in DOMAIN upstream : upstream[i].by # r

\* the date before each date a request of the model may start at
DayBefore(date) ==
    CASE date = "2025-01-03" -> "2025-01-02"
      [] date = "2025-01-04" -> "2025-01-03"
      [] date = "2025-01-05" -> "2025-01-04"
      [] date = "2025-01-06" -> "2025-01-05"

\* C27: the getStartTimeMatrix and getReservedTimeIntervals calls of an
\* availability request are issued with a start date one day before the
\* start_date of the request and with its end_date unchanged.
C27_RangeWidened ==
    \A i \in DOMAIN av.calls :
        av.calls[i].method \in {"getStartTimeMatrix", "getReservedTimeIntervals"} =>
            /\ av.calls[i].start_date = DayBefore(av.start_date)
            /\ av.calls[i].end_date = av.end_date

\* a step that starts a delay: it is the return of the re-check or of the
\* book call of an attempt before the last one, and what came back is a
\* failure or an error object other than "not available"
DelayOnlyAfterFailure ==
    \A r \in Requests :
        IF bk'[r].delays # bk[r].delays \/ (bk'[r].pc = "backoff" /\ bk[r].pc # "backoff")
        THEN /\ bk'[r].delays = bk[r].delays + 1
             /\ bk'[r].pc = "backoff"
             /\ bk[r].pc \in {"recheck", "book"}
             /\ bk[r].attempt >= 1
             /\ bk[r].attempt < maxRetries
             /\ bk'[r].attempt = bk[r].attempt
             /\ Len(bk'[r].answers) = Len(bk[r].answers) + 1
             /\ LET answer == bk'[r].answers[Len(bk'[r].answers)]
                IN  /\ answer.outcome \in {"error", "throw", "lost"}
                    /\ ~IncludesNotAvailable(answer.message)
        ELSE TRUE

\* the delays of a request so far: one before each attempt but the first
DelaysCounted ==
    \A r \in Requests :
        /\ bk[r].delays <= maxRetries - 1
        /\ bk[r].attempt = 0 => bk[r].delays = 0
        /\ bk[r].pc \in {"recheck", "book"} => bk[r].delays = bk[r].attempt - 1
        /\ bk[r].pc = "backoff" => bk[r].delays = bk[r].attempt /\ bk[r].attempt < maxRetries
        /\ bk[r].pc \in {"verify", "done"} /\ bk[r].attempt >= 1 =>
              bk[r].delays = bk[r].attempt - 1

\* C28: a one-second delay of the retry loop happens only after an attempt
\* k < 3 that failed with something other than "not available": none comes
\* before the first attempt, none after the third or after a successful
\* one, and a request waits at most twice.
C28_DelayOnlyBetweenAttempts ==
    /\ [][DelayOnlyAfterFailure]_vars
    /\ []DelaysCounted

\* two delays, then a third attempt that failed too and was answered at once
C28_Witness ==
    /\ bk[1].pc = "done"
    /\ bk[1].delays = 2
    /\ bk[1].attempt = maxRetries
    /\ bk[1].answers[Len(bk[1].answers)].outcome = "error"
    /\ bk[1].res.status = 500

\* the groups of a date hold no interval: there is no entry for the date,
\* its list is empty, or none of its groups has an array with entries
NoIntervalData(dayReserved) == EntriesIn(dayReserved) = {}

\* the groups the caller passed for a date, none if it has no entry
GroupsGiven(date) ==
    IF date \in DOMAIN probe.reservedIntervals THEN probe.reservedIntervals[date] ELSE <<>>

\* the start lies in the working hours 16:00-18:00
StartsInWorkingHours(t) == ClockMinutes(t) >= 16 * 60 /\ ClockMinutes(t) < 18 * 60

\* the times returned for a date, in the order of the result
ReturnedFor(date) ==
    LET slots == SelectSeq(probeResult.value, LAMBDA slot : slot.start_time[1] = date)
    IN  [k \in DOMAIN slots |-> slots[k].start_time[2]]

InsertedAfter(a, b) ==
    \/ a.timestamp > b.timestamp
    \/ a.timestamp = b.timestamp /\ a.id[2] > b.id[2]

NewestFirst ==
    \A i \in 1..(Len(recentEvents) - 1) :
        InsertedAfter(recentEvents[i], recentEvents[i + 1])

\* a step that changes the list puts the records of this step in front and
\* keeps the old list behind them, but for records at its end
OldestDropped ==
    recentEvents' # recentEvents =>
        \E m \in 1..Len(recentEvents') :
            LET kept == Len(recentEvents') - m
            IN  /\ \A i \in 1..m : recentEvents'[i].timestamp = now'
                /\ kept <= Len(recentEvents)
                /\ kept >= Len(recentEvents) - 1
                /\ SubSeq(recentEvents', m + 1, Len(recentEvents')) =
                      SubSeq(recentEvents, 1, kept)

\* a single-event request that was sent leaves its record at the front
SendRecorded ==
    \A r \in ConvRequests :
        (cv[r].kind = "event" /\ cv[r].pc = "sending" /\ cv'[r].pc = "done") =>
            /\ recentEvents' # <<>>
            /\ recentEvents'[1].timestamp = now'
            /\ recentEvents'[1].event_name = cv[r].body.event_name

\* the number of records a status query asks for, -1 if it names none
Requested(query) ==
    CASE ~Has(query, "limit") -> 20
      [] query.limit = "1" -> 1
      [] OTHER -> -1

\* a status query is answered with the length of the list and, when it
\* asks for n records, with the first min(n, length) records of the list
StatusNewest ==
    \A r \in ConvRequests :
        (cv[r].kind = "status" /\ cv[r].pc = "idle" /\ cv'[r].pc = "done") =>
            LET n == Requested(cv[r].body)
                len == Len(recentEvents)
                stats == cv'[r].res.stats
            IN  /\ stats.total = len
                /\ n >= 0 => stats.recent_events =
                                 SubSeq(recentEvents, 1, IF n < len THEN n ELSE len)

\* C30: the event list is newest-first and a trim removes the oldest
\* record: the records are in reverse order of insertion, a step that
\* inserts keeps the older records in place and drops at most the last,
\* and a status query with limit n (20 if none is given) is answered with
\* the min(n, length) newest records in that order and the full length.
C30_NewestFirst ==
    /\ []NewestFirst
    /\ [][SendRecorded /\ OldestDropped /\ StatusNewest]_vars

\* a single event was recorded on top of a batch of 100: the list holds 100
\* records, the new one first, and the first event of the batch is gone
C30_Witness ==
    /\ Len(recentEvents) = MaxRecentEvents
    /\ ~Has(recentEvents[1], "batch")
    /\ recentEvents[2].id[2] = MaxBatchEvents
    /\ recentEvents[MaxRecentEvents].id[2] = 2

\* the body of a send request satisfies the schema of its route
SatisfiesSchema(kind, body) ==
    IF kind = "event"
    THEN "event_name" \in DOMAIN body /\ body.event_name # ""
    ELSE /\ Len(body.events) \in 1..100
         /\ \A k \in DOMAIN body.events :
               "event_name" \in DOMAIN body.events[k] /\ body.events[k].event_name # ""

\* the keys of the body that the schema of the route names
KnownOnly(kind, body) ==
    IF kind = "event"
    THEN DOMAIN body \subseteq {"event_name", "event_data", "user_data", "custom_data"}
    ELSE /\ DOMAIN body = {"events"}
         /\ \A k \in DOMAIN body.events :
               DOMAIN body.events[k] \subseteq
                   {"event_name", "event_time", "user_data", "custom_data"}

\* the arrival of a send request: a body that fails the schema is answered
\* 400 with nothing sent and the list as it was, a body that satisfies it
\* reaches the controller, stripped of the keys the schema does not name
Gate ==
    \A r \in ConvRequests :
        (cv[r].kind \in {"event", "batch"} /\ cv[r].pc = "idle" /\ cv'[r] # cv[r]) =>
            IF SatisfiesSchema(cv[r].kind, cv[r].body)
            THEN /\ cv'[r].pc = "sending"
                 /\ cv'[r].payload # NoPayload
                 /\ KnownOnly(cv[r].kind, cv'[r].body)
                 /\ \A f \in DOMAIN cv'[r].body : cv'[r].body[f] = cv[r].body[f]
                       \/ cv[r].kind = "batch"
                 /\ cv[r].kind = "batch" =>
                       /\ Len(cv'[r].body.events) = Len(cv[r].body.events)
                       /\ \A k \in DOMAIN cv[r].body.events :
                             \A f \in DOMAIN cv'[r].body.events[k] :
                                 cv'[r].body.events[k][f] = cv[r].body.events[k][f]
            ELSE /\ cv'[r].pc = "done"
                 /\ cv'[r].res.status = 400
                 /\ cv'[r].res.error = "Validation failed"
                 /\ cv'[r].payload = NoPayload
                 /\ cv'[r].body = cv[r].body
                 /\ recentEvents' = recentEvents

\* the controller is entered once: a request that was sent is answered
\* and an answered request does nothing more
EnteredOnce ==
    \A r \in ConvRequests :
        /\ cv[r].pc = "sending" => cv'[r].pc \in {"sending", "done"}
        /\ cv[r].pc = "done" => cv'[r] = cv[r]

\* C31: the validation middleware gates POST /event and POST /batch: a
\* body that fails the schema gets 400 "Validation failed", the controller
\* does not run, nothing is sent and the event list is unchanged; a body
\* that satisfies it reaches the controller once, replaced by the
\* validated value.
C31_ValidationGates ==
    /\ [][Gate /\ EnteredOnce]_vars
    /\ [](\A r \in ConvRequests :
             cv[r].kind \in {"event", "batch"} /\ cv[r].payload # NoPayload =>
                 SatisfiesSchema(cv[r].kind, cv[r].body) /\ KnownOnly(cv[r].kind, cv[r].body))

\* a batch of 101 events was turned away and an event with an unknown key
\* reached the controller without it
C31_Witness ==
    /\ cv[1].kind = "batch"
    /\ Len(cv[1].body.events) = 101
    /\ cv[1].res.status = 400
    /\ cv[2].kind = "event"
    /\ cv[2].pc = "done"
    /\ cv[2].res.status = 200
    /\ DOMAIN cv[2].body = {"event_name"}
    /\ Len(recentEvents) = 1

\* the errors of a result name text
Reports(errors, text) == \E i \in DOMAIN errors : errors[i] = <<text>>

\* the errors of a result name the field of some event
ReportsField(errors, k, fld) ==
    \E i \in DOMAIN errors : errors[i] = <<"Event ", k - 1, ": ", fld, " is required">>

\* C32: validateEventPayload never throws and returns isValid = true
\* exactly when errors is empty; a payload whose data is missing or not
\* an array, that lacks access_token, or with an event that lacks
\* event_name, event_time or action_source gets isValid = false and the
\* error that names the fault.
C32_AlwaysAResult ==
    probeResult.called =>
        LET result == probeResult.value
            noArray == ~Has(probe, "data") \/ probe.data.type # "array"
        IN  /\ ~result.threw
            /\ result.isValid <=> result.errors = <<>>
            /\ noArray =>
                  /\ ~result.isValid
                  /\ Reports(result.errors, "data field is required and must be an array")
            /\ ~Has(probe, "access_token") =>
                  /\ ~result.isValid
                  /\ Reports(result.errors, "access_token is required")
            /\ ~noArray =>
                  \A k \in DOMAIN probe.data.items :
                      \A fld \in {"event_name", "event_time", "action_source"} :
                          ~Has(probe.data.items[k], fld) =>
                              /\ ~result.isValid
                              /\ ReportsField(result.errors, k, fld)

\* C33: a booking request that lacks start_time, service_id, unit_id,
\* client_name, client_email or client_phone is answered 400 "Missing
\* required fields" and issues no upstream call, neither before nor after
\* the answer.
C33_MissingFieldsRejected ==
    \A r \in Requests :
        bk[r].missing # {} =>
            /\ bk[r].calls = <<>>
            /\ \A i \in DOMAIN upstream : upstream[i].by # r
            /\ bk[r].pc \in {"off", "idle", "done"}
            /\ bk[r].pc = "done" =>
                  /\ bk[r].res.status = 400
                  /\ bk[r].res.error = <<"Missing required fields">>

\* a request without client_phone was answered 400
C33_Witness ==
    /\ bk[1].missing = {"client_phone"}
    /\ bk[1].pc = "done"
    /\ bk[1].res.status = 400
    /\ bk[1].calls = <<>>

\* C34: the end time of the book call is a clock time of the start date,
\* with its minute in 0..59, and it is the start time plus the duration
\* in minutes, the slot end the overlap test uses.
C34_EndTimeIsClockTime ==
    probeResult.called =>
        LET endTime == probeResult.value
        IN  /\ endTime[2] \in 0..59
            /\ endTime[1] \in 0..23
            /\ ClockMinutes(endTime) = ClockMinutes(probe.startTime) + probe.duration

\* C35: a booking request answered with 409 or 500 has left no booking
\* upstream, also in runs where a book call took effect upstream and its
\* response was lost or could not be parsed.
C35_NoBookingOnFailure ==
    \A r \in Requests :
        (bk[r].pc = "done" /\ bk[r].res.status \in {409, 500}) =>
            \A i \in DOMAIN upstream : upstream[i].by # r

\* the answer to a status query counts every record as successful or as
\* failed and lists the records at the front of the list
StatusAddsUp ==
    \A r \in ConvRequests :
        (cv[r].kind = "status" /\ cv[r].pc = "idle" /\ cv'[r].pc = "done") =>
            LET stats == cv'[r].res.stats
                shown == Len(stats.recent_events)
            IN  /\ cv'[r].res.status = 200
                /\ stats.total = stats.successful + stats.failed
                /\ shown <= stats.total
                /\ stats.recent_events = SubSeq(recentEvents, 1, shown)

\* C36: every record of the event list has status success or failed, so
\* in every answer to GET /status total = successful + failed, and
\* recent_events is a prefix of the list, of length at most total.
C36_StatsAddUp ==
    /\ [](\A k \in DOMAIN recentEvents : recentEvents[k].status \in {"success", "failed"})
    /\ [][StatusAddsUp]_vars
    /\ [](\A r \in ConvRequests :
             cv[r].kind = "status" /\ cv[r].pc = "done" =>
                 /\ cv[r].res.stats.total =
                       cv[r].res.stats.successful + cv[r].res.stats.failed
                 /\ Len(cv[r].res.stats.recent_events) <= cv[r].res.stats.total)

\* a status query without limit answered after a batch of 100: all of them
\* successful, the 20 at the front listed
C36_Witness ==
    \E r \in ConvRequests :
        /\ cv[r].kind = "status"
        /\ cv[r].pc = "done"
        /\ cv[r].res.stats.total = MaxBatchEvents
        /\ cv[r].res.stats.successful = MaxBatchEvents
        /\ cv[r].res.stats.failed = 0
        /\ Len(cv[r].res.stats.recent_events) = DefaultLimit

\* the list after the step is one new record of the given status and name
\* followed by the old list, which may have lost its last record
OneRecordAdded(status, name) ==
    /\ recentEvents' # <<>>
    /\ recentEvents'[1].status = status
    /\ recentEvents'[1].event_name = name
    /\ recentEvents'[1].timestamp = now'
    /\ \A k \in DOMAIN recentEvents : recentEvents[k].timestamp < now'
    /\ \E kept \in {Len(recentEvents), Len(recentEvents) - 1} :
          Tail(recentEvents') = SubSeq(recentEvents, 1, kept)

\* a single-event request in the controller is answered 200 with one new
\* success record or 500 with one new failed record; its other steps
\* leave the list as it is
SingleSendRecorded ==
    \A r \in ConvRequests :
        (cv[r].kind = "event" /\ cv'[r] # cv[r]) =>
            IF cv[r].pc = "sending"
            THEN /\ cv'[r].pc = "done"
                 /\ cv'[r].res.status \in {200, 500}
                 /\ OneRecordAdded(IF cv'[r].res.status = 200 THEN "success" ELSE "failed",
                                   cv[r].body.event_name)
            ELSE recentEvents' = recentEvents

\* C37: a single-event send that reaches the controller adds exactly one
\* record, of the status of its response: success with a 200, failed with
\* a 500; no request adds two records or none.
C37_OneRecordPerSend ==
    /\ [][SingleSendRecorded]_vars
    /\ [](\A r \in ConvRequests :
             cv[r].kind = "event" /\ cv[r].pc = "done" => cv[r].res.status \in {200, 400, 500})

\* two single events were sent, one accepted and one failed: two records
C37_Witness ==
    /\ cv[1].kind = "event" /\ cv[1].res.status = 200
    /\ cv[2].kind = "event" /\ cv[2].res.status = 500
    /\ Len(recentEvents) = 2
    /\ {recentEvents[1].status, recentEvents[2].status} = {"success", "failed"}

\* a batch request in the controller is answered 200 with one new success
\* record per event in front of the whole old list, or 500 with the list
\* as it was; its arrival, turned away with 400 or not, leaves the list
BatchRecorded ==
    \A r \in ConvRequests :
        (cv[r].kind = "batch" /\ cv'[r] # cv[r]) =>
            IF cv[r].pc = "sending" /\ cv'[r].res.status = 200
            THEN LET n == Len(cv[r].body.events)
                 IN  /\ Len(recentEvents') = Len(recentEvents) + n
                     /\ SubSeq(recentEvents', n + 1, Len(recentEvents')) = recentEvents
                     /\ \A i \in 1..n :
                           /\ recentEvents'[i].status = "success"
                           /\ recentEvents'[i].timestamp = now'
                           /\ recentEvents'[i].event_name =
                                 cv[r].body.events[n + 1 - i].event_name
                     /\ \A k \in DOMAIN recentEvents : recentEvents[k].timestamp < now'
            ELSE /\ recentEvents' = recentEvents
                 /\ cv'[r].pc = "done" => cv'[r].res.status \in {400, 500}

\* C38: a batch of n events that is sent successfully adds exactly n
\* success records, one per event; a batch answered 400 or 500 leaves the
\* event list unchanged.
C38_BatchAddsN == [][BatchRecorded]_vars

\* a batch of two events was recorded on top of a single event
C38_Witness ==
    /\ cv[1].kind = "batch"
    /\ cv[1].res.status = 200
    /\ Len(cv[1].body.events) = 2
    /\ cv[2].kind = "event"
    /\ Len(recentEvents) = 3
    /\ recentEvents[1].event_name = "Lead"
    /\ recentEvents[2].event_name = "Purchase"
    /\ ~Has(recentEvents[3], "batch")

====
